---- MODULE Spec2Model ----
(***************************************************************************)
(* Version lifecycle of the pathsim-docs builder (scripts/build.py with    *)
(* scripts/lib/git.py): the planner get_versions_to_build, the per-tag     *)
(* pipeline build_version, the package loop build_package and the package  *)
(* manifest.  A tag vMAJOR.MINOR.PATCH is the triple <<MAJOR,MINOR,PATCH>>, *)
(* a minor version string "MAJOR.MINOR" is the pair <<MAJOR,MINOR>>.        *)
(***************************************************************************)
EXTENDS Integers, Sequences, FiniteSets, TLC

(* ------------------------------------------------------------------ *)
(* Universe of the model                                               *)
(* ------------------------------------------------------------------ *)

\* The tags and directory names of the scenarios of the specification:
\* v0.5.0, v0.6.0, v0.6.2, v0.6.3, v0.7.0.
Universe == { <<0, 5, 0>>, <<0, 6, 0>>, <<0, 6, 2>>, <<0, 6, 3>>, <<0, 7, 0>> }

\* MIN_SUPPORTED_VERSIONS of lib/config.py: "0.7" (pathsim), "0.1" (chem,
\* vehicle, and the default of get_versions_to_build).
MIN_SUPPORTED_VERSIONS == { <<0, 1>>, <<0, 7>> }

\* The minimum supported versions the planner alone is run with: below, between
\* and above the minor versions of Universe.
MinVersions == { <<0, 1>>, <<0, 5>>, <<0, 6>>, <<0, 7>>, <<1, 0>> }

\* Largest number of tags of the repository, and of version directories on
\* disk, at the start of a package run (Spec); the planner alone (SpecPlan) is
\* run on every set of tags and every set of directories of Universe.
MaxTags == 2
MaxDirs == 2

\* Largest number of failures (failed git checkouts of a tag, stages that
\* raise) in one package run.
MaxFaults == 2

\* The API documents and manifests given to generate_version_indexes hold at
\* most MaxEntities modules, classes, methods, functions and notebooks in all.
MaxEntities == 5

\* The clock of the file system runs from 0 up to MaxClock.
MaxClock == 2

\* The list notebooks given to execute_notebooks holds at most MaxNotebooks
\* notebooks.
MaxNotebooks == 5

\* Largest number of modules, classes, methods and functions in the API
\* documents of the packages of the site, all together (SpecSite).
MaxSiteEntities == 3

\* lib/config.py: MAX_WORKERS = 4, parallel notebook execution
MAX_WORKERS == 4

\* None of Python, for a tag.
NoTag == <<>>

\* The files of a VersionDirectory that build_version writes: api.json,
\* manifest.json, search-index.json, crossref-index.json.
FileNames == { "api", "manifest", "search", "crossref" }

(* ------------------------------------------------------------------ *)
(* lib/git.py                                                          *)
(* ------------------------------------------------------------------ *)

\* parse_version: "vX.Y.Z" -> (X, Y, Z)
parse_version(tag) == << tag[1], tag[2], tag[3] >>

\* Python's tuple comparison a < b on triples
TupleLT(a, b) ==
    \/ a[1] < b[1]
    \/ a[1] = b[1] /\ a[2] < b[2]
    \/ a[1] = b[1] /\ a[2] = b[2] /\ a[3] < b[3]

\* insert x into a sequence sorted highest first; equal keys keep their order
RECURSIVE InsertDesc(_, _)
InsertDesc(x, s) ==
    IF s = << >> THEN << x >>
    ELSE IF TupleLT(parse_version(Head(s)), parse_version(x))
         THEN << x >> \o s
         ELSE << Head(s) >> \o InsertDesc(x, Tail(s))

\* list.sort(key=parse_version, reverse=True) / sorted(..., reverse=True)
RECURSIVE SortDesc(_)
SortDesc(s) ==
    IF s = << >> THEN << >>
    ELSE InsertDesc(s[Len(s)], SortDesc(SubSeq(s, 1, Len(s) - 1)))

\* some enumeration of a set (iteration order of a set, of iterdir)
RECURSIVE SetToSeq(_)
SetToSeq(S) ==
    IF S = {} THEN << >>
    ELSE LET x == CHOOSE y \in S : TRUE
         IN  << x >> \o SetToSeq(S \ {x})

Range(s) == { s[i] : i \in 1..Len(s) }

\* get_tags: the vX.Y.Z tags of the repository, highest first
get_tags(repoTags) == SortDesc(SetToSeq(repoTags))

\* get_minor_version / the f"{major}.{minor}" of get_minor_zero_tags
get_minor_version(tag) == << parse_version(tag)[1], parse_version(tag)[2] >>

\* version_gte: (major, minor) >= (min major, min minor)
version_gte(version, min_version) ==
    \/ version[1] > min_version[1]
    \/ version[1] = min_version[1] /\ version[2] >= min_version[2]

\* get_latest_tag: max(tags, key=parse_version), None for no tags
get_latest_tag(tags) ==
    IF tags = << >> THEN NoTag
    ELSE CHOOSE t \in Range(tags) :
            \A u \in Range(tags) : ~ TupleLT(parse_version(t), parse_version(u))

\* the loop of get_minor_zero_tags over tags[i..], with seen_minors
RECURSIVE minor_zero_loop(_, _, _, _)
minor_zero_loop(tags, i, seen_minors, min_version) ==
    IF i > Len(tags) THEN << >>
    ELSE LET tag == tags[i]
             minor_str == get_minor_version(tag)
         IN  IF parse_version(tag)[3] # 0
                THEN minor_zero_loop(tags, i + 1, seen_minors, min_version)
             ELSE IF minor_str \in seen_minors
                THEN minor_zero_loop(tags, i + 1, seen_minors, min_version)
             ELSE IF ~ version_gte(minor_str, min_version)
                THEN minor_zero_loop(tags, i + 1, seen_minors, min_version)
             ELSE << tag >> \o
                  minor_zero_loop(tags, i + 1, seen_minors \cup {minor_str}, min_version)

\* get_minor_zero_tags: the vX.Y.0 tags at or above min_version, highest first
get_minor_zero_tags(tags, min_version) ==
    SortDesc(minor_zero_loop(tags, 1, {}, min_version))

(* ------------------------------------------------------------------ *)
(* build.py: get_versions_to_build                                     *)
(* ------------------------------------------------------------------ *)

\* historical = set(get_minor_zero_tags(tags, min_version))
historical_tags(tags, min_version) == Range(get_minor_zero_tags(tags, min_version))

\* to_build_unsorted when the latest tag is rebuilt although its directory
\* exists
to_build_latest_always(tags, rebuild_all, min_version, existing) ==
    LET historical == historical_tags(tags, min_version)
        latest_tag == get_latest_tag(tags)
        missing    == { tag \in historical : rebuild_all \/ tag \notin existing }
    IN  SetToSeq(missing) \o
        ( IF latest_tag # NoTag THEN << latest_tag >> ELSE << >> )

\* the to_build list before the final sort: the missing (or all) .0 releases in
\* the iteration order of the set, then the latest tag when it is missing (or
\* rebuild_all)
to_build_unsorted(tags, rebuild_all, min_version, existing) ==
    LET historical == historical_tags(tags, min_version)
        latest_tag == get_latest_tag(tags)
        missing    == { tag \in historical : rebuild_all \/ tag \notin existing }
    IN  SetToSeq(missing) \o
        ( IF latest_tag # NoTag /\ (rebuild_all \/ latest_tag \notin existing)
             THEN << latest_tag >> ELSE << >> )

\* to_delete_of without "if existing.name == latest_tag: continue"
to_delete_with_latest(tags, rebuild_all, min_version, existing) ==
    LET historical == historical_tags(tags, min_version)
        latest_tag == get_latest_tag(tags)
    IN  IF /\ latest_tag # NoTag
           /\ (rebuild_all \/ latest_tag \notin existing)
           /\ latest_tag \notin historical
        THEN { e \in existing : e \notin historical }
        ELSE {}

\* to_delete_of when "if existing.name in historical: continue" looked at the
\* patch number of the directory name only
to_delete_of_patch_releases(tags, rebuild_all, min_version, existing) ==
    LET historical == historical_tags(tags, min_version)
        latest_tag == get_latest_tag(tags)
    IN  IF /\ latest_tag # NoTag
           /\ (rebuild_all \/ latest_tag \notin existing)
           /\ latest_tag \notin historical
        THEN { e \in existing : parse_version(e)[3] # 0 /\ e # latest_tag }
        ELSE {}

\* to_delete, as the set of the names appended (iterdir order is not modelled)
to_delete_of(tags, rebuild_all, min_version, existing) ==
    LET historical == historical_tags(tags, min_version)
        latest_tag == get_latest_tag(tags)
    IN  IF /\ latest_tag # NoTag
           /\ (rebuild_all \/ latest_tag \notin existing)
           /\ latest_tag \notin historical
        THEN { e \in existing : e \notin historical /\ e # latest_tag }
        ELSE {}

\* get_versions_to_build: (to_build sorted highest first, to_delete)
get_versions_to_build(tags, rebuild_all, min_version, existing) ==
    [ to_build  |-> SortDesc(to_build_unsorted(tags, rebuild_all, min_version, existing)),
      to_delete |-> to_delete_of(tags, rebuild_all, min_version, existing) ]

(* ------------------------------------------------------------------ *)
(* build.py: generate_version_indexes                                  *)
(* ------------------------------------------------------------------ *)

\* A string is the sequence of its pieces, the identifiers and the "." or "-"
\* between them: "pathsim.blocks" is << "pathsim", ".", "blocks" >>.
\* A file is << >> while it does not exist and << content >> once written.
Absent == << >>
File(content) == << content >>
Exists(file) == file # Absent
Content(file) == file[1]

\* s.replace(old, new)
replace(s, old, new) == [ i \in DOMAIN s |-> IF s[i] = old THEN new ELSE s[i] ]

\* f"{a}.{b}"
dotted(a, b) == a \o << "." >> \o b

\* f"{package_id}/{tag}/api#{rest}" (base "api") and
\* f"{package_id}/{tag}/examples/{rest}" (base "examples")
path_of(package_id, tag, base, rest) ==
    [ package |-> package_id, tag |-> tag, base |-> base, rest |-> rest ]

\* the module anchor with the dots of the module name kept
module_anchor_dotted(module_name) == module_name

\* module_name.replace('.', '-')
module_anchor(module_name) == replace(module_name, ".", "-")

\* the module entry: search item and crossref target carry the same fields
\* (the free-text description of the search item is left out)
module_target(package_id, tag, module_name) ==
    [ name |-> module_name, type |-> "module", packageId |-> package_id,
      moduleName |-> module_name,
      path |-> path_of(package_id, tag, "api", module_anchor(module_name)) ]

\* class_target, cls_path = f"{api_base}#{cls_name}"
class_target(package_id, tag, module_name, cls_name) ==
    [ name |-> cls_name, type |-> "class", packageId |-> package_id,
      moduleName |-> module_name,
      path |-> path_of(package_id, tag, "api", cls_name) ]

\* the method entry, method_path = f"{api_base}#{cls_name}.{method_name}"
method_target(package_id, tag, module_name, cls_name, method_name) ==
    [ name |-> method_name, type |-> "method", packageId |-> package_id,
      moduleName |-> module_name, parentClass |-> cls_name,
      path |-> path_of(package_id, tag, "api", dotted(cls_name, method_name)) ]

\* func_target, func_path = f"{api_base}#{func_name}"
func_target(package_id, tag, module_name, func_name) ==
    [ name |-> func_name, type |-> "function", packageId |-> package_id,
      moduleName |-> module_name,
      path |-> path_of(package_id, tag, "api", func_name) ]

\* the search item of a notebook of the manifest
example_item(package_id, tag, notebook) ==
    [ name |-> notebook.title, type |-> "example", packageId |-> package_id,
      moduleName |-> notebook.category,
      path |-> path_of(package_id, tag, "examples", notebook.slug) ]

\* a dict assignment that keeps the value a key already has
dict_set_first_wins(d, key, value) ==
    [ k \in DOMAIN d \cup {key} |-> IF k \in DOMAIN d THEN d[k] ELSE value ]

\* crossref_items[key] = value
dict_set(d, key, value) ==
    [ k \in DOMAIN d \cup {key} |-> IF k = key THEN value ELSE d[k] ]

\* crossref_items[key] = value for each key of keys, in order
RECURSIVE dict_set_all(_, _, _, _)
dict_set_all(d, keys, i, value) ==
    IF i > Len(keys) THEN d
    ELSE dict_set_all(dict_set(d, keys[i], value), keys, i + 1, value)

\* the class registered under its bare name only
class_keys_bare_name_only(package_id, module_name, cls_name) == << cls_name >>

\* the keys a class is registered under, in the order of the assignments
class_keys(package_id, module_name, cls_name) ==
    << cls_name, dotted(module_name, cls_name), dotted(package_id, cls_name) >>

\* the keys a function is registered under, in the order of the assignments
func_keys(module_name, func_name) ==
    << func_name, dotted(module_name, func_name) >>

\* one more search item and one more crossref target under each key of keys
register(out, item, keys) ==
    [ search_items   |-> Append(out.search_items, item),
      crossref_items |-> dict_set_all(out.crossref_items, keys, 1, item) ]

\* the methods of a class in the crossref index but not in the search index
methods_loop_crossref_only(package_id, tag, module_name, cls_name, methods, i, out) ==
    [ search_items   |-> out.search_items,
      crossref_items |->
          LET RECURSIVE all(_, _)
              all(j, d) ==
                  IF j > Len(methods) THEN d
                  ELSE all(j + 1, dict_set(d, dotted(cls_name, methods[j]),
                           method_target(package_id, tag, module_name, cls_name,
                                         methods[j])))
          IN  all(i, out.crossref_items) ]

\* for method in cls.get("methods", [])
RECURSIVE methods_loop(_, _, _, _, _, _, _)
methods_loop(package_id, tag, module_name, cls_name, methods, i, out) ==
    IF i > Len(methods) THEN out
    ELSE methods_loop(package_id, tag, module_name, cls_name, methods, i + 1,
             register(out,
                      method_target(package_id, tag, module_name, cls_name, methods[i]),
                      << dotted(cls_name, methods[i]) >>))

\* for cls in module.get("classes", []): the class, then its methods
RECURSIVE classes_loop(_, _, _, _, _, _)
classes_loop(package_id, tag, module_name, classes, i, out) ==
    IF i > Len(classes) THEN out
    ELSE LET cls_name == classes[i].name
             with_class ==
                 register(out,
                          class_target(package_id, tag, module_name, cls_name),
                          class_keys(package_id, module_name, cls_name))
         IN  classes_loop(package_id, tag, module_name, classes, i + 1,
                 methods_loop(package_id, tag, module_name, cls_name,
                              classes[i].methods, 1, with_class))

\* for func in module.get("functions", [])
RECURSIVE functions_loop(_, _, _, _, _, _)
functions_loop(package_id, tag, module_name, functions, i, out) ==
    IF i > Len(functions) THEN out
    ELSE functions_loop(package_id, tag, module_name, functions, i + 1,
             register(out,
                      func_target(package_id, tag, module_name, functions[i]),
                      func_keys(module_name, functions[i])))

\* for module_name, module in modules.items(): the module, its classes, its
\* functions
RECURSIVE modules_loop(_, _, _, _, _)
modules_loop(package_id, tag, modules, i, out) ==
    IF i > Len(modules) THEN out
    ELSE LET module_name == modules[i].name
             with_module ==
                 register(out, module_target(package_id, tag, module_name),
                          << module_name >>)
             with_classes ==
                 classes_loop(package_id, tag, module_name, modules[i].classes, 1,
                              with_module)
         IN  modules_loop(package_id, tag, modules, i + 1,
                 functions_loop(package_id, tag, module_name,
                                modules[i].functions, 1, with_classes))

\* for notebook in manifest.get("notebooks", [])
RECURSIVE notebooks_loop(_, _, _, _, _)
notebooks_loop(package_id, tag, notebooks, i, search_items) ==
    IF i > Len(notebooks) THEN search_items
    ELSE notebooks_loop(package_id, tag, notebooks, i + 1,
             Append(search_items, example_item(package_id, tag, notebooks[i])))

\* search_items and crossref_items of generate_version_indexes, from api.json
\* and manifest.json as they are in output_dir (each only "if exists")
generate_version_indexes(package_id, tag, api_file, manifest_file) ==
    LET empty == [ search_items |-> << >>, crossref_items |-> << >> ]
        api   == IF Exists(api_file)
                    THEN modules_loop(package_id, tag, Content(api_file).modules, 1, empty)
                    ELSE empty
    IN  [ search_items   |->
              IF Exists(manifest_file)
                 THEN notebooks_loop(package_id, tag, Content(manifest_file).notebooks,
                                     1, api.search_items)
                 ELSE api.search_items,
          crossref_items |-> api.crossref_items ]

(* ------------------------------------------------------------------ *)
(* State                                                               *)
(* ------------------------------------------------------------------ *)

VARIABLES
    tags,          \* the vX.Y.Z tags of the source repository
    min_version,   \* MIN_SUPPORTED_VERSIONS[package_id]
    rebuild_all,   \* --all
    dry_run,       \* --dry-run
    execute,       \* not --no-execute
    disk,          \* the version directories under STATIC_DIR / package_id
    files,         \* files[tag]: the files of the version directory of tag
    manifest_json, \* manifest_json[tag]: what manifest.json of that directory holds
    pkg_manifest,  \* STATIC_DIR / package_id / manifest.json, NoManifest if absent
    head,          \* what the source repository is checked out at
    pc,            \* position in build_package / build_version
    to_build,      \* build_package: to_build
    to_delete,     \* build_package: to_delete
    idx,           \* position of the loop "for tag in to_build"
    built,         \* build_package: built
    notebooks,     \* build_version: whether the list notebooks is non-empty
    attempted,     \* history: the tags build_version was called with, in order
    results,       \* history: what each of these calls returned
    head_before,   \* history: head when the current build_version was called
    ran,           \* history: the stages the current build_version has run
    written,       \* history: the files the current build_version has written
    raised,        \* history: the stage of the current build_version that raised
    faults,        \* history: the failed checkouts and raising stages so far
    main_ok,       \* history: what checkout_main returned ("none" before it ran)
    initial,       \* history: disk, files, pkg_manifest and head at the start
    watched,       \* the tag whose version directory is followed file by file
    vdir,          \* the files of the version directory of the watched tag
    api_data,      \* build_version: api_data, what extract_api returned
    clock,         \* the time of the file system, st_mtime of a file written now
    last_pass,     \* history: the last embeddings pass over the watched directory
    nb_metadata,   \* build_version: the list notebooks that execute_notebooks is given
    futures,       \* execute_notebooks: the state of each submitted execution
    exec_results,  \* execute_notebooks: results
    outcomes,      \* history: how the execution of each notebook ended
    reordered,     \* history: an execution ended before one submitted earlier
    api_dir,       \* build-indexes.py: the files of API_DIR and NOTEBOOKS_DIR
    site_pc,       \* build-indexes.py: where main is ("off": it is not run)
    site_data,     \* build-indexes.py main: api_data and manifests
    site_indexes   \* build-indexes.py main: search_index and crossref_index

vars == << tags, min_version, rebuild_all, dry_run, execute, disk, files,
           manifest_json, pkg_manifest, head, pc, to_build, to_delete, idx, built, notebooks,
           attempted, results, head_before, ran, written, raised, faults,
           main_ok, initial, watched, vdir, api_data, clock, last_pass,
           nb_metadata, futures, exec_results, outcomes, reordered,
           api_dir, site_pc, site_data, site_indexes >>

inputs == << tags, min_version, rebuild_all, dry_run, execute >>
history_of_build == << head_before, ran, written, raised, faults >>
contents == << watched, vdir, api_data, clock, last_pass >>
execution == << nb_metadata, futures, exec_results, outcomes, reordered >>
site == << api_dir, site_pc, site_data, site_indexes >>

NoManifest == [ latestTag |-> NoTag, versions |-> << >> ]

OnBranch(b) == [ branch |-> b, tag |-> NoTag ]
AtTag(t)    == [ branch |-> "(detached)", tag |-> t ]

\* the package being built, PACKAGES has one key per package
PackageId == << "p" >>

\* a version directory without files
EmptyDirectory ==
    [ api |-> Absent, manifest |-> Absent, search |-> Absent, crossref |-> Absent,
      embeddings |-> Absent ]

\* what extract_api returns for a tag without importable modules, and for a
\* tag with the one module p that holds the function a
NoModules == [ modules |-> << >> ]
OneModule ==
    [ modules |-> << [ name |-> << "p" >>, classes |-> << >>,
                       functions |-> << << "a" >> >> ] >> ]
ExtractedDocs == { NoModules, OneModule }

\* the notebooks of the examples of the model: n1 "t1" of the category
\* control and n2 "t2" of the category getting-started
ExampleNotebooks ==
    { [ slug |-> << "n1" >>, title |-> << "t1" >>, category |-> << "control" >> ],
      [ slug |-> << "n2" >>, title |-> << "t2" >>, category |-> << "getting-started" >> ] }

\* the list notebooks of build_version: one notebook or none
notebook_list(nonempty) ==
    IF nonempty
       THEN << [ slug |-> << "n1" >>, title |-> << "t1" >>,
                 category |-> << "control" >> ] >>
       ELSE << >>

\* lib/config.py CATEGORIES: category_order.get(n["category"], 99)
category_order(category) ==
    CASE category = << "getting-started" >> -> 1
      [] category = << "control" >>         -> 2
      [] OTHER                               -> 99

\* the place of a title among the titles of the model, in string order
title_order(title) == IF title = << "t1" >> THEN 1 ELSE 2

\* key=lambda n: (category_order.get(n["category"], 99), n["title"])
notebook_key_less(a, b) ==
    \/ category_order(a.category) < category_order(b.category)
    \/ /\ category_order(a.category) = category_order(b.category)
       /\ title_order(a.title) < title_order(b.title)

\* sorted(notebooks, key=...): a stable sort, by insertion from the left
RECURSIVE insert_notebook(_, _)
insert_notebook(s, x) ==
    IF s = << >> THEN << x >>
    ELSE IF notebook_key_less(x, Head(s)) THEN << x >> \o s
    ELSE << Head(s) >> \o insert_notebook(Tail(s), x)

RECURSIVE sorted_notebooks(_, _, _)
sorted_notebooks(nbs, i, acc) ==
    IF i > Len(nbs) THEN acc
    ELSE sorted_notebooks(nbs, i + 1, insert_notebook(acc, nbs[i]))

\* lib/notebooks.py generate_version_manifest (the constant list categories
\* is left out)
generate_version_manifest(package_id, tag, nbs) ==
    [ package |-> package_id, tag |-> tag,
      notebooks |-> sorted_notebooks(nbs, 1, << >>) ]

\* what manifest.json of a version directory can hold: the file is missing, it
\* cannot be read as a manifest (unreadable, or not the JSON of a manifest), it
\* lists no notebook, it lists at least one
ManifestStates == { "missing", "malformed", "no notebooks", "notebooks" }

\* what manifest.json holds once build_version has written the manifest of
\* the list notebooks
manifest_written(nbs) == IF Len(nbs) > 0 THEN "notebooks" ELSE "no notebooks"

\* the times at which a write that starts at time t can reach the file: the
\* clock of the file system has moved on by then, or it has not
later(t) == { n \in t .. t + 1 : n <= MaxClock }

\* no embeddings pass has run since the last build of the package
NoPass ==
    [ force |-> FALSE, dry_run |-> FALSE, stale |-> FALSE, result |-> "none",
      at |-> 0 ]

\* execute_notebooks is not followed execution by execution
NotExecuting ==
    /\ nb_metadata = << >>
    /\ futures = << >>
    /\ exec_results = << >>
    /\ outcomes = << >>
    /\ reordered = FALSE

\* build-indexes.py is not run: its directories are left out
NoSite ==
    /\ api_dir = [ api |-> << >>, notebooks |-> << >>, search |-> Absent,
                   crossref |-> Absent ]
    /\ site_pc = "off"
    /\ site_data = [ api_data |-> << >>, manifests |-> << >> ]
    /\ site_indexes = [ search_index |-> << >>, crossref_index |-> << >>,
                        targets |-> << >> ]

\* the directory of no tag is followed file by file
Untracked ==
    /\ NotExecuting
    /\ watched = NoTag
    /\ vdir = EmptyDirectory
    /\ api_data = NoModules
    /\ clock = 0
    /\ last_pass = NoPass

\* the start of build_package, for the tags T, the directories E with the
\* manifest.json M[t] in the directory of t, and a minimum supported version
\* of V
StartWith(T, E, V, M) ==
    /\ tags = T
    /\ disk = E
    /\ min_version \in V
    /\ rebuild_all \in BOOLEAN
    /\ dry_run \in BOOLEAN
    /\ execute \in BOOLEAN
    /\ files = [ t \in Universe |->
                   IF t \notin disk THEN {}
                   ELSE IF M[t] = "missing" THEN FileNames \ { "manifest" }
                   ELSE FileNames ]
    /\ manifest_json = M
    /\ pkg_manifest = NoManifest
    /\ head \in { OnBranch("main"), OnBranch("feature") }
    /\ pc = "start"
    /\ to_build = << >>
    /\ to_delete = {}
    /\ idx = 1
    /\ built = 0
    /\ notebooks = FALSE
    /\ attempted = << >>
    /\ results = << >>
    /\ head_before = head
    /\ ran = {}
    /\ written = {}
    /\ raised = "none"
    /\ faults = 0
    /\ main_ok = "none"
    /\ initial = [ disk |-> disk, files |-> files, pkg_manifest |-> NoManifest,
                   head |-> head ]

\* the start of build_package when earlier builds have filled each directory
\* of E, with a manifest.json that lists notebooks
Start(T, E, V) ==
    StartWith(T, E, V, [ t \in Universe |-> IF t \in E THEN "notebooks" ELSE "missing" ])

(* ------------------------------------------------------------------ *)
(* build.py: generate_package_manifest                                 *)
(* ------------------------------------------------------------------ *)

\* has_examples when a manifest.json that cannot be read counts as one with
\* examples
has_examples_unless_missing(version_manifest) == version_manifest # "missing"

\* has_examples of generate_package_manifest: False without manifest.json,
\* False when open, json.load, .get or len raises (except Exception: pass),
\* else len(version_manifest.get("notebooks", [])) > 0
has_examples(version_manifest) == version_manifest = "notebooks"

\* the list versions: one entry per tag of version_tags, in that order (the
\* release date of get_tag_date is left out)
versions_of(version_tags, manifests) ==
    [ i \in 1..Len(version_tags) |->
        [ tag |-> version_tags[i],
          hasExamples |-> has_examples(manifests[version_tags[i]]) ] ]

\* generate_package_manifest with the "if dry_run" test left out
generate_package_manifest_on_dry_run(dirs, manifests, dry, old) ==
    LET version_tags == SortDesc(SetToSeq(dirs))
    IN  IF version_tags = << >> THEN old
        ELSE [ latestTag |-> version_tags[1],
               versions |-> versions_of(version_tags, manifests) ]

\* generate_package_manifest with version_tags left in the order of iterdir
generate_package_manifest_unsorted(dirs, manifests, dry, old) ==
    LET version_tags == SetToSeq(dirs)
    IN  IF version_tags = << >> THEN old
        ELSE IF dry THEN old
        ELSE [ latestTag |-> version_tags[1],
               versions |-> versions_of(version_tags, manifests) ]

\* the manifest generate_package_manifest leaves on disk: the version
\* directories sorted highest first, latestTag the first of them, each with
\* hasExamples from its manifest.json; nothing is written when there is no
\* version directory or on a dry run
generate_package_manifest(dirs, manifests, dry, old) ==
    LET version_tags == SortDesc(SetToSeq(dirs))
    IN  IF version_tags = << >> THEN old
        ELSE IF dry THEN old
        ELSE [ latestTag |-> version_tags[1],
               versions |-> versions_of(version_tags, manifests) ]

(* ------------------------------------------------------------------ *)
(* build.py: build_package, up to the loop over to_build               *)
(* ------------------------------------------------------------------ *)

\* tags = get_tags(repo_path); if not tags: return 0
NoTags ==
    /\ pc = "start"
    /\ get_tags(tags) = << >>
    /\ pc' = "done"
    /\ UNCHANGED << site, inputs, execution, manifest_json, contents, disk, files, pkg_manifest, head, to_build, to_delete,
                    idx, built, notebooks, attempted, results,
                    history_of_build, main_ok, initial >>

\* to_build, to_delete = get_versions_to_build(...); both empty:
\* generate_package_manifest(package_id, dry_run); return 0
UpToDate ==
    /\ pc = "start"
    /\ get_tags(tags) # << >>
    /\ LET plan == get_versions_to_build(get_tags(tags), rebuild_all, min_version, disk)
       IN  /\ plan.to_build = << >> /\ plan.to_delete = {}
           /\ to_build' = plan.to_build
           /\ to_delete' = plan.to_delete
    /\ pkg_manifest' = generate_package_manifest(disk, manifest_json, dry_run, pkg_manifest)
    /\ pc' = "done"
    /\ UNCHANGED << site, inputs, execution, manifest_json, contents, disk, files, head, idx, built, notebooks, attempted,
                    results, history_of_build, main_ok, initial >>

\* to_build, to_delete = get_versions_to_build(...), not both empty
Plan ==
    /\ pc = "start"
    /\ get_tags(tags) # << >>
    /\ LET plan == get_versions_to_build(get_tags(tags), rebuild_all, min_version, disk)
       IN  /\ ~ (plan.to_build = << >> /\ plan.to_delete = {})
           /\ to_build' = plan.to_build
           /\ to_delete' = plan.to_delete
    /\ pc' = "delete"
    /\ UNCHANGED << site, inputs, execution, manifest_json, contents, disk, files, pkg_manifest, head, idx, built, notebooks,
                    attempted, results, history_of_build, main_ok, initial >>

\* delete_old with the shutil.rmtree left out
delete_old_nothing(dirs, doomed, dry) == dirs

\* the directories left once "for tag in to_delete: shutil.rmtree" has run
delete_old(dirs, doomed, dry) == IF dry THEN dirs ELSE dirs \ doomed

\* Delete old non-.0 versions being replaced
DeleteOld ==
    /\ pc = "delete"
    /\ disk' = delete_old(disk, to_delete, dry_run)
    /\ files' = [ t \in Universe |-> IF t \in disk' THEN files[t] ELSE {} ]
    /\ manifest_json' = [ t \in Universe |-> IF t \in disk' THEN manifest_json[t]
                                                          ELSE "missing" ]
    /\ vdir' = IF watched \in disk \ disk' THEN EmptyDirectory ELSE vdir
    /\ idx' = 1
    /\ pc' = "loop"
    /\ UNCHANGED << site, inputs, execution, watched, api_data, clock, last_pass, pkg_manifest,
                    head, to_build, to_delete, built, notebooks, attempted,
                    results, history_of_build, main_ok, initial >>

(* ------------------------------------------------------------------ *)
(* build.py: build_version                                             *)
(* ------------------------------------------------------------------ *)

current_tag == to_build[idx]

\* the version directory being built is the one followed file by file
Tracked == current_tag = watched

\* next_tag_index when a failed build ended the loop
next_tag_index_stop_on_failure(i, ok) == IF ok THEN i + 1 ELSE Len(to_build) + 1

\* where "for tag in to_build" goes on after build_version returned for the
\* tag at position i
next_tag_index(i, ok) == i + 1

\* build_version returns ok to the loop of build_package
Return(ok) ==
    /\ results' = Append(results, ok)
    /\ built' = IF ok THEN built + 1 ELSE built
    /\ idx' = next_tag_index(idx, ok)
    /\ pc' = "loop"

\* a git checkout fails or a stage raises: one more failure of this run
Fault ==
    /\ faults < MaxFaults
    /\ faults' = faults + 1

\* Raise when each of the stages 1 to 3 had its own handler that logs the error
\* and lets build_version go on with the next stage
Raise_and_go_on(stage) ==
    /\ Fault
    /\ raised' = stage
    /\ IF stage \in { "extract", "copy", "execute" }
          THEN /\ pc' = CASE stage = "extract" -> "copy"
                          [] stage = "copy"    -> "execute"
                          [] stage = "execute" -> "manifest"
               /\ UNCHANGED << results, built, idx >>
          ELSE Return(FALSE)

\* "except Exception as e: print(...); return False"
Raise(stage) ==
    /\ Fault
    /\ raised' = stage
    /\ Return(FALSE)

\* the stage went through, build_version goes on with the next one
GoOn(next) ==
    /\ pc' = next
    /\ UNCHANGED << site, faults, raised, results, built, idx >>

\* a stage writes file f of the version directory being built
write_file(fs, tag, f) == [ fs EXCEPT ![tag] = @ \cup {f} ]

\* build_version on a dry run: "Would build to", return True
BuildVersionDry ==
    /\ pc = "loop"
    /\ idx <= Len(to_build)
    /\ dry_run
    /\ attempted' = Append(attempted, current_tag)
    /\ head_before' = head
    /\ ran' = {}
    /\ written' = {}
    /\ raised' = "none"
    /\ Return(TRUE)
    /\ UNCHANGED << site, inputs, execution, manifest_json, contents, disk, files, pkg_manifest, head, to_build, to_delete,
                    notebooks, faults, main_ok, initial >>

\* build_version: output_dir.mkdir(parents=True, exist_ok=True)
BuildVersionMkdir ==
    /\ pc = "loop"
    /\ idx <= Len(to_build)
    /\ ~ dry_run
    /\ attempted' = Append(attempted, current_tag)
    /\ head_before' = head
    /\ ran' = {}
    /\ written' = {}
    /\ raised' = "none"
    /\ notebooks' = FALSE
    /\ api_data' = NoModules
    /\ disk' = disk \cup {current_tag}
    /\ pc' = "checkout"
    /\ UNCHANGED << site, inputs, execution, manifest_json, watched, vdir, clock, last_pass, files, pkg_manifest,
                    head, to_build, to_delete, idx, built, results, faults,
                    main_ok, initial >>

\* checkout when a failed git checkout left the repository at the ref
checkout_moves_on_failure(h, ref, ok) == AtTag(ref)

\* lib/git.py checkout: git checkout ref succeeds or fails; a failed checkout
\* leaves the repository where it was
checkout(h, ref, ok) == IF ok THEN AtTag(ref) ELSE h

\* if not checkout(repo_path, tag): return False
Checkout ==
    /\ pc = "checkout"
    /\ \E ok \in BOOLEAN :
          /\ head' = checkout(head, current_tag, ok)
          /\ IF ok THEN GoOn("extract")
                   ELSE /\ Fault
                        /\ Return(FALSE)
                        /\ UNCHANGED raised
    /\ UNCHANGED << site, inputs, execution, manifest_json, contents, disk, files, pkg_manifest, to_build, to_delete,
                    notebooks, attempted, head_before, ran, written, main_ok,
                    initial >>

\* 1. Extract API: extract_api raises, finds modules (api.json is written) or
\* finds none
ExtractApi ==
    /\ pc = "extract"
    /\ ran' = ran \cup {"extract"}
    /\ \/ /\ Raise("extract")
          /\ UNCHANGED << files, written, vdir, api_data >>
       \/ \E data \in ExtractedDocs :
             /\ GoOn("copy")
             /\ api_data' = IF Tracked THEN data ELSE api_data
             /\ IF data.modules # << >>
                   THEN /\ files' = write_file(files, current_tag, "api")
                        /\ written' = written \cup {"api"}
                        /\ vdir' = IF Tracked THEN [ vdir EXCEPT !.api = File(data) ]
                                              ELSE vdir
                   ELSE UNCHANGED << files, written, vdir >>
    /\ UNCHANGED << site, inputs, execution, manifest_json, watched, clock, last_pass, disk, pkg_manifest, head,
                    to_build, to_delete, notebooks, attempted, head_before,
                    main_ok, initial >>

\* 2. Copy notebooks: copy_notebooks (and copy_figures) return the metadata of
\* some notebooks, or of none (always so without a notebooks source), or raise
CopyNotebooks ==
    /\ pc = "copy"
    /\ ran' = ran \cup {"copy"}
    /\ \/ /\ Raise("copy")
          /\ UNCHANGED notebooks
       \/ /\ notebooks' \in BOOLEAN
          /\ GoOn("execute")
    /\ UNCHANGED << site, inputs, execution, manifest_json, contents, disk, files, pkg_manifest, head, to_build, to_delete,
                    attempted, head_before, written, main_ok, initial >>

\* 3. Execute notebooks: only "if execute and notebooks"; execute_notebooks
\* returns or raises
ExecuteNotebooks ==
    /\ pc = "execute"
    /\ IF execute /\ notebooks
          THEN /\ ran' = ran \cup {"execute"}
               /\ \/ GoOn("manifest")
                  \/ Raise("execute")
          ELSE /\ GoOn("manifest")
               /\ UNCHANGED ran
    /\ UNCHANGED << site, inputs, execution, manifest_json, contents, disk, files, pkg_manifest, head, to_build, to_delete,
                    notebooks, attempted, head_before, written, main_ok, initial >>

\* 4. Generate version manifest: manifest.json is written, or the stage raises
GenerateManifest ==
    /\ pc = "manifest"
    /\ ran' = ran \cup {"manifest"}
    /\ \/ /\ files' = write_file(files, current_tag, "manifest")
          /\ written' = written \cup {"manifest"}
          /\ manifest_json' = [ manifest_json EXCEPT ![current_tag] =
                                  manifest_written(notebook_list(notebooks)) ]
          /\ vdir' = IF Tracked
                        THEN [ vdir EXCEPT !.manifest =
                                 File(generate_version_manifest(PackageId, current_tag,
                                                       notebook_list(notebooks))) ]
                        ELSE vdir
          /\ GoOn("indexes")
       \/ /\ Raise("manifest")
          /\ UNCHANGED << files, written, manifest_json, vdir >>
    /\ UNCHANGED << site, inputs, execution, watched, api_data, clock, last_pass, disk,
                    pkg_manifest, head, to_build, to_delete, notebooks, attempted,
                    head_before, main_ok, initial >>

\* the directory once a search index without the examples of manifest.json is
\* written
search_index_written_without_examples(dir, package_id, tag, now) ==
    [ dir EXCEPT !.search =
        File([ items |-> generate_version_indexes(package_id, tag, dir.api,
                                                  Absent).search_items,
               mtime |-> now ]) ]

\* the directory once "with open(search_path, "w")" has written search_items,
\* at time now
search_index_written(dir, package_id, tag, now) ==
    [ dir EXCEPT !.search =
        File([ items |-> generate_version_indexes(package_id, tag, dir.api,
                                                  dir.manifest).search_items,
               mtime |-> now ]) ]

\* the directory once "with open(crossref_path, "w")" has written
\* crossref_items
crossref_index_written(dir, package_id, tag) ==
    [ dir EXCEPT !.crossref =
        File(generate_version_indexes(package_id, tag, dir.api,
                                      dir.manifest).crossref_items) ]

\* 5. generate_version_indexes, first half: api.json and manifest.json are
\* read and search-index.json is written, or the stage raises
WriteSearchIndex ==
    /\ pc = "indexes"
    /\ ran' = ran \cup {"indexes"}
    /\ \/ /\ files' = write_file(files, current_tag, "search")
          /\ written' = written \cup {"search"}
          /\ IF Tracked
                THEN \E now \in later(clock) :
                        /\ clock' = now
                        /\ vdir' = search_index_written(vdir, PackageId, current_tag, now)
                ELSE UNCHANGED << clock, vdir >>
          /\ GoOn("crossref")
       \/ /\ Raise("indexes")
          /\ UNCHANGED << files, written, clock, vdir >>
    /\ UNCHANGED << site, inputs, execution, manifest_json, watched, api_data, last_pass, disk, pkg_manifest,
                    head, to_build, to_delete, notebooks, attempted, head_before,
                    main_ok, initial >>

\* generate_version_indexes, second half: crossref-index.json is written and
\* build_version returns True, or the write raises
WriteCrossrefIndex ==
    /\ pc = "crossref"
    /\ \/ /\ files' = write_file(files, current_tag, "crossref")
          /\ written' = written \cup {"crossref"}
          /\ vdir' = IF Tracked THEN crossref_index_written(vdir, PackageId, current_tag)
                                  ELSE vdir
          /\ Return(TRUE)
          /\ UNCHANGED << faults, raised >>
       \/ /\ Raise("indexes")
          /\ UNCHANGED << files, written, vdir >>
    /\ UNCHANGED << site, inputs, execution, manifest_json, watched, api_data, clock, last_pass, disk,
                    pkg_manifest, head, to_build, to_delete, notebooks, attempted,
                    head_before, ran, main_ok, initial >>

(* ------------------------------------------------------------------ *)
(* build.py: build_package, after the loop                             *)
(* ------------------------------------------------------------------ *)

\* checkout_main without the fallback to master
checkout_main_without_master(h, main_works, master_works) ==
    IF main_works THEN OnBranch("main") ELSE h

\* lib/git.py checkout_main: git checkout main, else git checkout master,
\* else False with the repository left where it was
checkout_main(h, main_works, master_works) ==
    IF main_works THEN OnBranch("main")
    ELSE IF master_works THEN OnBranch("master")
    ELSE h

\* a dry run is over after the loop: neither checkout_main nor the package
\* manifest
FinishDry ==
    /\ pc = "loop"
    /\ idx > Len(to_build)
    /\ dry_run
    /\ pc' = "done"
    /\ UNCHANGED << site, inputs, execution, manifest_json, contents, disk, files, pkg_manifest, head, to_build, to_delete,
                    idx, built, notebooks, attempted, results,
                    history_of_build, main_ok, initial >>

\* Return to main branch: checkout_main(repo_path), its result is not looked at
CheckoutMain ==
    /\ pc = "loop"
    /\ idx > Len(to_build)
    /\ ~ dry_run
    /\ \E main_works \in BOOLEAN, master_works \in BOOLEAN :
          /\ head' = checkout_main(head, main_works, master_works)
          /\ main_ok' = IF main_works \/ master_works THEN "true" ELSE "false"
    /\ pc' = "package manifest"
    /\ UNCHANGED << site, inputs, execution, manifest_json, contents, disk, files, pkg_manifest, to_build, to_delete, idx,
                    built, notebooks, attempted, results, history_of_build,
                    initial >>

\* Generate package manifest (not on a dry run)
PackageManifest ==
    /\ pc = "package manifest"
    /\ pkg_manifest' = generate_package_manifest(disk, manifest_json, dry_run, pkg_manifest)
    /\ pc' = "done"
    /\ UNCHANGED << site, inputs, execution, manifest_json, contents, disk, files, head, to_build, to_delete, idx, built,
                    notebooks, attempted, results, history_of_build, main_ok,
                    initial >>

Next ==
    \/ NoTags
    \/ UpToDate
    \/ Plan
    \/ DeleteOld
    \/ BuildVersionDry
    \/ BuildVersionMkdir
    \/ Checkout
    \/ ExtractApi
    \/ CopyNotebooks
    \/ ExecuteNotebooks
    \/ GenerateManifest
    \/ WriteSearchIndex
    \/ WriteCrossrefIndex
    \/ FinishDry
    \/ CheckoutMain
    \/ PackageManifest

Init ==
    \E T \in SUBSET Universe, E \in SUBSET Universe :
        /\ Cardinality(T) <= MaxTags
        /\ Cardinality(E) <= MaxDirs
        /\ Start(T, E, MIN_SUPPORTED_VERSIONS)
        /\ Untracked
        /\ NoSite

Spec == Init /\ [][Next]_vars

\* The planner alone, on every tag set and every set of directories
InitPlan ==
    /\ \E T \in SUBSET Universe, E \in SUBSET Universe : Start(T, E, MinVersions)
    /\ Untracked
    /\ NoSite
    /\ execute
    /\ head = OnBranch("main")

NextPlan ==
    \/ NoTags
    \/ UpToDate
    \/ Plan

SpecPlan == InitPlan /\ [][NextPlan]_vars

\* The entry of build_package, and with it generate_package_manifest, on
\* version directories whose manifest.json is in any state
InitManifest ==
    /\ \E T \in SUBSET Universe, E \in SUBSET Universe, M \in [ Universe -> ManifestStates ] :
          /\ Cardinality(T) <= MaxTags
          /\ Cardinality(E) <= MaxDirs
          /\ \A t \in Universe \ E : M[t] = "missing"
          /\ StartWith(T, E, MIN_SUPPORTED_VERSIONS, M)
    /\ Untracked
    /\ NoSite
    /\ execute
    /\ head = OnBranch("main")

SpecManifest == InitManifest /\ [][NextPlan]_vars

(* ------------------------------------------------------------------ *)
(* generate_version_indexes on every small API document and manifest   *)
(* ------------------------------------------------------------------ *)

\* the module names, and the names of classes, methods and functions
ModuleNames == { << "p" >>, << "p", ".", "a" >> }
Identifiers == { << "a" >>, << "b" >> }

\* what one more module, class, method, function or notebook makes of the
\* modules and notebooks x: a module has a name no earlier module has (the
\* modules are the keys of a dict), a class or function goes to the last
\* module, a method to the last class of the last module, a notebook to the end
Extensions(x) ==
    LET n       == Len(x.modules)
        last    == x.modules[n]
        c       == Len(last.classes)
        names   == { x.modules[i].name : i \in 1..n }
    IN  { [ x EXCEPT !.modules =
                Append(@, [ name |-> m, classes |-> << >>, functions |-> << >> ]) ]
            : m \in ModuleNames \ names }
        \cup
        ( IF n = 0 THEN {}
          ELSE { [ x EXCEPT !.modules[n].classes =
                       Append(@, [ name |-> id, methods |-> << >> ]) ]
                   : id \in Identifiers }
               \cup
               { [ x EXCEPT !.modules[n].functions = Append(@, id) ]
                   : id \in Identifiers }
               \cup
               ( IF c = 0 THEN {}
                 ELSE { [ x EXCEPT !.modules[n].classes[c].methods = Append(@, id) ]
                          : id \in Identifiers } ) )
        \cup
        { [ x EXCEPT !.notebooks = Append(@, nb) ]
            : nb \in { e \in ExampleNotebooks :
                          \A i \in 1..Len(x.notebooks) : x.notebooks[i] # e } }

\* the modules and notebooks with at most n modules, classes, methods,
\* functions and notebooks in all
RECURSIVE InputsUpTo(_)
InputsUpTo(n) ==
    IF n = 0 THEN { [ modules |-> << >>, notebooks |-> << >> ] }
    ELSE LET smaller == InputsUpTo(n - 1)
         IN  smaller \cup UNION { Extensions(x) : x \in smaller }

AllInputs == InputsUpTo(MaxEntities)

\* build_version of the tag T has reached step 5 with the modules and
\* notebooks x: api.json holds the modules (if there are any, or from an
\* earlier build), manifest.json the notebooks
AtIndexes(T, x) ==
    /\ tags = {T}
    /\ min_version = << 0, 1 >>
    /\ rebuild_all = FALSE
    /\ dry_run = FALSE
    /\ execute = TRUE
    /\ disk = {T}
    /\ vdir \in { [ EmptyDirectory EXCEPT
                      !.api = a,
                      !.manifest = File(generate_version_manifest(PackageId, T, x.notebooks)) ]
                  : a \in { File([ modules |-> x.modules ]) }
                          \cup ( IF x.modules = << >> THEN { Absent } ELSE {} ) }
    /\ files = [ t \in Universe |->
                   IF t # T THEN {}
                   ELSE IF Exists(vdir.api) THEN { "api", "manifest" }
                   ELSE { "manifest" } ]
    /\ manifest_json = [ t \in Universe |->
                           IF t = T THEN manifest_written(x.notebooks) ELSE "missing" ]
    /\ pkg_manifest = NoManifest
    /\ head = AtTag(T)
    /\ pc = "indexes"
    /\ to_build = << T >>
    /\ to_delete = {}
    /\ idx = 1
    /\ built = 0
    /\ notebooks = (x.notebooks # << >>)
    /\ attempted = << T >>
    /\ results = << >>
    /\ head_before = OnBranch("main")
    /\ ran = IF notebooks THEN { "extract", "copy", "execute", "manifest" }
                          ELSE { "extract", "copy", "manifest" }
    /\ written = files[T]
    /\ raised = "none"
    /\ faults = 0
    /\ main_ok = "none"
    /\ initial = [ disk |-> {}, files |-> [ t \in Universe |-> {} ],
                   pkg_manifest |-> NoManifest, head |-> OnBranch("main") ]
    /\ NotExecuting
    /\ NoSite
    /\ watched = T
    /\ api_data = [ modules |-> x.modules ]
    /\ clock = 0
    /\ last_pass = NoPass

InitIndex == \E x \in AllInputs : AtIndexes(<< 0, 6, 3 >>, x)

NextIndex ==
    \/ WriteSearchIndex
    \/ WriteCrossrefIndex

SpecIndex == InitIndex /\ [][NextIndex]_vars

(* ------------------------------------------------------------------ *)
(* lib/embeddings.py and build-embeddings.py                           *)
(* ------------------------------------------------------------------ *)

\* should_regenerate_embeddings with "search_mtime >= embeddings_mtime"
should_regenerate_embeddings_when_not_older(version_dir) ==
    IF ~ Exists(version_dir.search) THEN FALSE
    ELSE IF ~ Exists(version_dir.embeddings) THEN TRUE
    ELSE Content(version_dir.search).mtime >= Content(version_dir.embeddings).mtime

\* should_regenerate_embeddings(version_dir)
should_regenerate_embeddings(version_dir) ==
    IF ~ Exists(version_dir.search) THEN FALSE
    ELSE IF ~ Exists(version_dir.embeddings) THEN TRUE
    ELSE Content(version_dir.search).mtime > Content(version_dir.embeddings).mtime

\* generate_embeddings(search_items): one vector per item; of the result only
\* count is modelled (model, dim and the encoded vectors are left out)
generate_embeddings(search_items) == [ count |-> Len(search_items) ]

\* generate_version_embeddings that looks at the staleness whatever force is
generate_version_embeddings_ignoring_force(version_dir, force, now) ==
    IF should_regenerate_embeddings(version_dir)
       THEN [ generated |-> TRUE,
              dir |-> [ version_dir EXCEPT !.embeddings =
                          File([ count |-> generate_embeddings(
                                               Content(version_dir.search).items).count,
                                 mtime |-> now ]) ] ]
       ELSE [ generated |-> FALSE, dir |-> version_dir ]

\* generate_version_embeddings(version_dir, force) when nothing raises: what
\* it returns and what it leaves in the directory, written at time now
generate_version_embeddings(version_dir, force, now) ==
    IF ~ Exists(version_dir.search)
       THEN [ generated |-> FALSE, dir |-> version_dir ]
    ELSE IF ~ force /\ ~ should_regenerate_embeddings(version_dir)
       THEN [ generated |-> FALSE, dir |-> version_dir ]
    ELSE [ generated |-> TRUE,
           dir |-> [ version_dir EXCEPT !.embeddings =
                       File([ count |-> generate_embeddings(
                                            Content(version_dir.search).items).count,
                              mtime |-> now ]) ] ]

\* build-embeddings.py main, what the body of the loop does with one version
\* directory: "skipped" and "generated" are what total_skipped and
\* total_generated count ("would generate" is counted as generated), "error"
\* is counted by neither
pass_result(version_dir, force, dry, raises, now) ==
    LET needs_update == force \/ should_regenerate_embeddings(version_dir)
        done == generate_version_embeddings(version_dir, force, now)
    IN  IF ~ needs_update THEN "skipped"
        ELSE IF dry THEN "would generate"
        ELSE IF raises /\ Exists(version_dir.search) THEN "error"
        ELSE IF done.generated THEN "generated"
        ELSE "skipped"

\* build-embeddings.py main, the body of "for version_dir in sorted(...)" for
\* the watched directory, run between two runs of build.py: the directory is
\* up to date (skipped), or it is a dry run (would generate), or
\* generate_version_embeddings runs and returns, or raises after it found the
\* search index (the error is printed, nothing was written)
EmbeddingsPass ==
    /\ pc = "idle"
    /\ watched \in disk
    /\ \E force \in BOOLEAN, dry \in BOOLEAN, raises \in BOOLEAN, now \in later(clock) :
          LET done == generate_version_embeddings(vdir, force, now)
              result == pass_result(vdir, force, dry, raises, now)
          IN  /\ vdir' = IF result = "generated" THEN done.dir ELSE vdir
              /\ clock' = IF result = "generated" THEN now ELSE clock
              /\ last_pass' = [ force |-> force, dry_run |-> dry,
                                stale |-> should_regenerate_embeddings(vdir),
                                result |-> result, at |-> clock' ]
    /\ UNCHANGED << site, inputs, execution, manifest_json, watched, api_data, disk, files, pkg_manifest, head, pc,
                    to_build, to_delete, idx, built, notebooks, attempted, results,
                    history_of_build, main_ok, initial >>

(* ------------------------------------------------------------------ *)
(* One version directory through runs of build.py and embeddings passes *)
(* ------------------------------------------------------------------ *)

\* build.py main returns: the process of this run is over, what is left of it
\* is what it wrote and the checkout of the repository
MainReturns ==
    /\ pc = "done"
    /\ pc' = "idle"
    /\ rebuild_all' = FALSE
    /\ dry_run' = FALSE
    /\ execute' = TRUE
    /\ to_build' = << >>
    /\ to_delete' = {}
    /\ idx' = 1
    /\ built' = 0
    /\ notebooks' = FALSE
    /\ attempted' = << >>
    /\ results' = << >>
    /\ head_before' = head
    /\ ran' = {}
    /\ written' = {}
    /\ raised' = "none"
    /\ faults' = 0
    /\ main_ok' = "none"
    /\ initial' = [ disk |-> disk, files |-> files, pkg_manifest |-> pkg_manifest,
                    head |-> head ]
    /\ api_data' = NoModules
    /\ UNCHANGED << site, tags, min_version, execution, disk, files, manifest_json, pkg_manifest, head, watched,
                    vdir, clock, last_pass >>

\* build.py main is started again, with the flags of that invocation: a new
\* run of build_package on the directories and the checkout the last run left
NextRun ==
    /\ pc = "idle"
    /\ pc' = "start"
    /\ rebuild_all' \in BOOLEAN
    /\ dry_run' \in BOOLEAN
    /\ execute' \in BOOLEAN
    /\ last_pass' = NoPass
    /\ UNCHANGED << site, tags, min_version, execution, disk, files, manifest_json, pkg_manifest, head, to_build,
                    to_delete, idx, built, notebooks, attempted, results,
                    history_of_build, main_ok, initial, watched, vdir, api_data,
                    clock >>

\* the repository has the one tag v0.6.3, nothing is built yet, and the
\* directory of v0.6.3 is followed file by file
InitDir ==
    /\ Start({ << 0, 6, 3 >> }, {}, { << 0, 1 >> })
    /\ head = OnBranch("main")
    /\ NotExecuting
    /\ NoSite
    /\ watched = << 0, 6, 3 >>
    /\ vdir = EmptyDirectory
    /\ api_data = NoModules
    /\ clock = 0
    /\ last_pass = NoPass

NextDir ==
    \/ UpToDate
    \/ Plan
    \/ DeleteOld
    \/ BuildVersionDry
    \/ BuildVersionMkdir
    \/ Checkout
    \/ ExtractApi
    \/ CopyNotebooks
    \/ ExecuteNotebooks
    \/ GenerateManifest
    \/ WriteSearchIndex
    \/ WriteCrossrefIndex
    \/ FinishDry
    \/ CheckoutMain
    \/ PackageManifest
    \/ MainReturns
    \/ EmbeddingsPass
    \/ NextRun

SpecDir == InitDir /\ [][NextDir]_vars

(* ------------------------------------------------------------------ *)
(* Runs of build.py over a repository that gets new tags               *)
(* ------------------------------------------------------------------ *)

\* between two runs of build.py a new release is tagged in the repository
NewTag ==
    /\ pc = "idle"
    /\ \E t \in Universe \ tags : tags' = tags \cup {t}
    /\ UNCHANGED << site, min_version, rebuild_all, dry_run, execute, manifest_json,
                    execution, contents, disk, files, pkg_manifest, head, pc,
                    to_build, to_delete, idx, built, notebooks, attempted, results,
                    history_of_build, main_ok, initial >>

\* the first run of build.py for a package: some tags, an empty output
\* directory
InitRuns ==
    /\ \E T \in SUBSET Universe :
          /\ Cardinality(T) <= MaxTags
          /\ Start(T, {}, MIN_SUPPORTED_VERSIONS)
    /\ Untracked
    /\ NoSite
    /\ head = OnBranch("main")

\* the builds of these runs end in one of two ways, the checkout of the tag
\* fails or every stage goes through: extract_api finds modules, there are
\* notebooks, nothing raises
StagesGoThrough ==
    /\ raised' = "none"
    /\ pc = "extract" => "api" \in written'
    /\ pc = "copy" => notebooks'

\* "python build.py" without --dry-run, with notebook execution
NonDryRun ==
    /\ NextRun
    /\ ~ dry_run'
    /\ execute'

NextRuns ==
    \/ NoTags
    \/ UpToDate
    \/ Plan
    \/ DeleteOld
    \/ BuildVersionMkdir
    \/ Checkout
    \/ (ExtractApi /\ StagesGoThrough)
    \/ (CopyNotebooks /\ StagesGoThrough)
    \/ (ExecuteNotebooks /\ StagesGoThrough)
    \/ (GenerateManifest /\ StagesGoThrough)
    \/ (WriteSearchIndex /\ StagesGoThrough)
    \/ (WriteCrossrefIndex /\ StagesGoThrough)
    \/ CheckoutMain
    \/ PackageManifest
    \/ MainReturns
    \/ NonDryRun
    \/ NewTag

SpecRuns == InitRuns /\ [][NextRuns]_vars

(* ------------------------------------------------------------------ *)
(* lib/executor.py: execute_notebooks                                  *)
(* ------------------------------------------------------------------ *)

\* nb["file"] of the notebooks copy_notebooks found: the names of
\* source_dir.glob("*.ipynb"), so no two notebooks have the same file name
notebook_file(i) == [ stem |-> i, suffix |-> "ipynb" ]

\* Path(nb["file"]).stem
stem(file) == file.stem

\* how the execution of one notebook ends: nbconvert exits with 0 ("ok"),
\* exits with an error or cannot be run ("failed"), runs into the timeout
\* ("timeout"), or _execute_single_notebook raises ("raised": no notebook
\* dict to inject the setup cell into, no output file can be written)
Outcomes == { "ok", "failed", "timeout", "raised" }

\* _execute_with_nbconvert: of the result success and error
execute_with_nbconvert(outcome) ==
    CASE outcome = "ok"      -> [ success |-> TRUE, error |-> "none" ]
      [] outcome = "timeout" -> [ success |-> FALSE, error |-> "Timeout" ]
      [] OTHER               -> [ success |-> FALSE, error |-> "nbconvert" ]

\* _execute_single_notebook when it returns: output_data with success and
\* error (cells, executedAt and duration are left out)
execute_single_notebook(outcome) ==
    LET result == execute_with_nbconvert(outcome)
    IN  IF ~ result.success
           THEN [ success |-> FALSE, error |-> result.error ]
           ELSE [ success |-> TRUE, error |-> "none" ]

\* an exception of one execution recorded as a successful result
result_of_hiding_exceptions(outcome) ==
    IF outcome = "raised" THEN [ success |-> TRUE, error |-> "none" ]
    ELSE execute_single_notebook(outcome)

\* the body of the try of execute_notebooks for one notebook: result =
\* future.result() (or the call itself), and on an exception
\* {"success": False, "error": str(e), "cells": {}}
result_of(outcome) ==
    IF outcome = "raised" THEN [ success |-> FALSE, error |-> "exception" ]
    ELSE execute_single_notebook(outcome)

\* executable = [nb for nb in notebooks if nb.get("executable", True)]
executable_of(nbs) == SelectSeq(nbs, LAMBDA nb : nb.executable)

\* the stems of the notebooks of a list
stems_of(nbs) == { stem(nbs[i].file) : i \in 1..Len(nbs) }

\* the executions the pool has started and not finished
running_of(fs) == { n \in DOMAIN fs : fs[n] = "running" }

\* the process pool of max_workers workers takes the submitted executions
\* in the order of submission: the first queued one (lowest place in the
\* list executable) starts as soon as a worker is free
RECURSIVE pool_schedule(_, _, _)
pool_schedule(fs, order, i) ==
    IF i > Len(order) \/ Cardinality(running_of(fs)) >= MAX_WORKERS THEN fs
    ELSE LET n == stem(order[i].file)
         IN  IF fs[n] = "queued"
                THEN pool_schedule([ fs EXCEPT ![n] = "running" ], order, i + 1)
                ELSE pool_schedule(fs, order, i + 1)

\* execute_notebooks up to the loop over the results: the output directories
\* are made (mkdir raises, or not), no executable notebook: return {}; more
\* than one (parallel is True in build_version): every execution is
\* submitted to the pool; one: the sequential loop
ExecuteNotebooksSubmit ==
    /\ pc = "execute"
    /\ execute /\ notebooks
    /\ ran' = ran \cup {"execute"}
    /\ exec_results' = << >>
    /\ outcomes' = << >>
    /\ reordered' = FALSE
    /\ LET executable == executable_of(nb_metadata)
       IN  \/ /\ Raise("execute")
              /\ futures' = << >>
           \/ /\ executable = << >>
              /\ futures' = << >>
              /\ GoOn("manifest")
           \/ /\ Len(executable) > 1
              /\ futures' = pool_schedule([ n \in stems_of(executable) |-> "queued" ],
                                          executable, 1)
              /\ GoOn("as_completed")
           \/ /\ Len(executable) = 1
              /\ futures' = << >>
              /\ GoOn("sequential")
    /\ UNCHANGED << site, inputs, manifest_json, contents, nb_metadata, disk, files,
                    pkg_manifest, head, to_build, to_delete, notebooks, attempted,
                    head_before, written, main_ok, initial >>

\* a worker of the pool ends the execution of a notebook, in one of the four
\* ways, and takes the next queued execution
WorkerFinishes ==
    /\ pc = "as_completed"
    /\ \E n \in running_of(futures), outcome \in Outcomes :
          /\ outcomes' = dict_set(outcomes, n, outcome)
          /\ futures' = pool_schedule([ futures EXCEPT ![n] = "done" ],
                                      executable_of(nb_metadata), 1)
          /\ reordered' = (reordered \/ \E m \in running_of(futures) : m < n)
    /\ UNCHANGED << site, inputs, manifest_json, contents, nb_metadata, exec_results,
                    disk, files, pkg_manifest, head, pc, to_build, to_delete, idx,
                    built, notebooks, attempted, results, history_of_build,
                    main_ok, initial >>

\* "for future in as_completed(futures)": the loop takes a finished execution
\* it has not had yet and stores its result, or the failed result of its
\* exception, under the stem of the notebook
Collect ==
    /\ pc = "as_completed"
    /\ \E n \in DOMAIN futures :
          /\ futures[n] = "done"
          /\ n \notin DOMAIN exec_results
          /\ exec_results' = dict_set(exec_results, n, result_of(outcomes[n]))
    /\ UNCHANGED << site, inputs, manifest_json, contents, nb_metadata, futures, outcomes,
                    reordered, disk, files, pkg_manifest, head, pc, to_build,
                    to_delete, idx, built, notebooks, attempted, results,
                    history_of_build, main_ok, initial >>

\* "for nb in executable" of the sequential branch: the next notebook is
\* executed in this process and its result is stored
ExecuteSequential ==
    /\ pc = "sequential"
    /\ LET executable == executable_of(nb_metadata)
           i == Cardinality(DOMAIN exec_results) + 1
       IN  /\ i <= Len(executable)
           /\ \E outcome \in Outcomes :
                 /\ outcomes' = dict_set(outcomes, stem(executable[i].file), outcome)
                 /\ exec_results' = dict_set(exec_results, stem(executable[i].file),
                                             result_of(outcome))
    /\ UNCHANGED << site, inputs, manifest_json, contents, nb_metadata, futures, reordered,
                    disk, files, pkg_manifest, head, pc, to_build, to_delete, idx,
                    built, notebooks, attempted, results, history_of_build,
                    main_ok, initial >>

\* "return results": the loop over the executions is over, build_version
\* goes on with the version manifest
ExecuteNotebooksReturns ==
    /\ pc \in { "as_completed", "sequential" }
    /\ DOMAIN exec_results = stems_of(executable_of(nb_metadata))
    /\ GoOn("manifest")
    /\ UNCHANGED << site, inputs, manifest_json, contents, execution, disk, files,
                    pkg_manifest, head, to_build, to_delete, notebooks, attempted,
                    head_before, ran, written, main_ok, initial >>

\* the lists notebooks of at most MaxNotebooks notebooks, each executable or
\* not (NON_EXECUTABLE of lib/config.py)
RECURSIVE NotebookLists(_)
NotebookLists(n) ==
    IF n = 0 THEN { << >> }
    ELSE LET shorter == NotebookLists(n - 1)
         IN  shorter \cup
             { Append(l, [ file |-> notebook_file(n), executable |-> e ])
                 : l \in { k \in shorter : Len(k) = n - 1 }, e \in BOOLEAN }

\* build_version of the tag T has reached step 3 with the list notebooks nbs
AtExecute(T, nbs) ==
    /\ tags = {T}
    /\ min_version = << 0, 1 >>
    /\ rebuild_all = FALSE
    /\ dry_run = FALSE
    /\ execute = TRUE
    /\ disk = {T}
    /\ files = [ t \in Universe |-> {} ]
    /\ manifest_json = [ t \in Universe |-> "missing" ]
    /\ pkg_manifest = NoManifest
    /\ head = AtTag(T)
    /\ pc = "execute"
    /\ to_build = << T >>
    /\ to_delete = {}
    /\ idx = 1
    /\ built = 0
    /\ notebooks = (nbs # << >>)
    /\ attempted = << T >>
    /\ results = << >>
    /\ head_before = OnBranch("main")
    /\ ran = { "extract", "copy" }
    /\ written = {}
    /\ raised = "none"
    /\ faults = 0
    /\ main_ok = "none"
    /\ initial = [ disk |-> {}, files |-> [ t \in Universe |-> {} ],
                   pkg_manifest |-> NoManifest, head |-> OnBranch("main") ]
    /\ watched = NoTag
    /\ vdir = EmptyDirectory
    /\ api_data = NoModules
    /\ clock = 0
    /\ last_pass = NoPass
    /\ nb_metadata = nbs
    /\ futures = << >>
    /\ exec_results = << >>
    /\ outcomes = << >>
    /\ reordered = FALSE
    /\ NoSite

InitExec == \E nbs \in NotebookLists(MaxNotebooks) \ { << >> } : AtExecute(<< 0, 6, 3 >>, nbs)

NextExec ==
    \/ ExecuteNotebooksSubmit
    \/ WorkerFinishes
    \/ Collect
    \/ ExecuteSequential
    \/ ExecuteNotebooksReturns

SpecExec == InitExec /\ [][NextExec]_vars

(* ------------------------------------------------------------------ *)
(* build-indexes.py: the site-wide search and crossref indexes         *)
(* ------------------------------------------------------------------ *)

PACKAGE_ORDER == << << "pathsim" >>, << "chem" >>, << "vehicle" >> >>

\* PACKAGES.get(pkg_id, {}).get("name", pkg_id)
package_name(pkg_id) ==
    CASE pkg_id = << "pathsim" >> -> << "PathSim" >>
      [] pkg_id = << "chem" >>    -> << "PathSim-Chem" >>
      [] pkg_id = << "vehicle" >> -> << "PathSim-Vehicle" >>
      [] OTHER                    -> pkg_id

\* load_api_data: the loop over PACKAGE_ORDER from position i, api_data has a
\* key for each package whose json file exists, in that order
RECURSIVE load_api_data(_, _)
load_api_data(api_files, i) ==
    IF i > Len(PACKAGE_ORDER) THEN << >>
    ELSE LET pkg_id == PACKAGE_ORDER[i]
         IN  ( IF Exists(api_files[pkg_id])
                  THEN << [ pkg_id |-> pkg_id,
                            modules |-> Content(api_files[pkg_id]).modules ] >>
                  ELSE << >> )
             \o load_api_data(api_files, i + 1)

\* load_notebook_manifests: manifests[pkg_id] = data.get("notebooks", [])
RECURSIVE load_notebook_manifests(_, _)
load_notebook_manifests(manifest_files, i) ==
    IF i > Len(PACKAGE_ORDER) THEN << >>
    ELSE LET pkg_id == PACKAGE_ORDER[i]
         IN  ( IF Exists(manifest_files[pkg_id])
                  THEN << [ pkg_id |-> pkg_id,
                            notebooks |-> Content(manifest_files[pkg_id]).notebooks ] >>
                  ELSE << >> )
             \o load_notebook_manifests(manifest_files, i + 1)

\* the paths of the site: pkg_id (page ""), f"{pkg_id}/api",
\* f"{pkg_id}/api#{anchor}" and f"{pkg_id}/examples/{slug}"
site_path(pkg_id, page, rest) == [ package |-> pkg_id, page |-> page, rest |-> rest ]

\* a page-level result of build_search_index
page_result(suffix, pkg_id, page) ==
    [ type |-> "page", name |-> package_name(pkg_id) \o suffix,
      path |-> site_path(pkg_id, page, << >>), packageId |-> pkg_id,
      moduleName |-> << >> ]

\* packages_with_examples = set(pkg_id for pkg_id, notebooks in manifests.items() if notebooks)
packages_with_examples(manifests) ==
    { manifests[i].pkg_id : i \in { j \in 1..Len(manifests) : manifests[j].notebooks # << >> } }

\* 1. Add page-level results: overview page, API page, examples page
RECURSIVE page_results(_, _)
page_results(manifests, i) ==
    IF i > Len(PACKAGE_ORDER) THEN << >>
    ELSE LET pkg_id == PACKAGE_ORDER[i]
         IN  << page_result(<< >>, pkg_id, ""), page_result(<< " API" >>, pkg_id, "api") >>
             \o ( IF pkg_id \in packages_with_examples(manifests)
                     THEN << page_result(<< " Examples" >>, pkg_id, "examples") >>
                     ELSE << >> )
             \o page_results(manifests, i + 1)

\* build_search_index: the result of a module, "path": f"{base_path}#{module_name}"
search_module(pkg_id, module_name) ==
    [ type |-> "module", name |-> module_name,
      path |-> site_path(pkg_id, "api", module_name),
      packageId |-> pkg_id, moduleName |-> module_name ]

\* build_search_index: the result of a class
search_class(pkg_id, module_name, cls_name) ==
    [ type |-> "class", name |-> cls_name,
      path |-> site_path(pkg_id, "api", cls_name),
      packageId |-> pkg_id, moduleName |-> module_name ]

\* build_search_index: the result of a method
search_method(pkg_id, module_name, cls_name, method_name) ==
    [ type |-> "method", name |-> method_name,
      path |-> site_path(pkg_id, "api", method_name),
      packageId |-> pkg_id, moduleName |-> module_name, parentClass |-> cls_name ]

\* build_search_index: the result of a function
search_function(pkg_id, module_name, func_name) ==
    [ type |-> "function", name |-> func_name,
      path |-> site_path(pkg_id, "api", func_name),
      packageId |-> pkg_id, moduleName |-> module_name ]

\* build_search_index: the result of a notebook
search_example(pkg_id, notebook) ==
    [ type |-> "example", name |-> notebook.title,
      path |-> site_path(pkg_id, "examples", notebook.slug),
      packageId |-> pkg_id, moduleName |-> notebook.category ]

\* for cls in module.get("classes", []): the class, then its methods
RECURSIVE search_classes(_, _, _, _)
search_classes(pkg_id, module_name, classes, i) ==
    IF i > Len(classes) THEN << >>
    ELSE << search_class(pkg_id, module_name, classes[i].name) >>
         \o [ j \in 1..Len(classes[i].methods) |->
                search_method(pkg_id, module_name, classes[i].name, classes[i].methods[j]) ]
         \o search_classes(pkg_id, module_name, classes, i + 1)

\* for module_name, module in modules.items(): the module, its classes, its
\* functions
RECURSIVE search_modules(_, _, _)
search_modules(pkg_id, modules, i) ==
    IF i > Len(modules) THEN << >>
    ELSE << search_module(pkg_id, modules[i].name) >>
         \o search_classes(pkg_id, modules[i].name, modules[i].classes, 1)
         \o [ j \in 1..Len(modules[i].functions) |->
                search_function(pkg_id, modules[i].name, modules[i].functions[j]) ]
         \o search_modules(pkg_id, modules, i + 1)

\* 2. Add API items: for pkg_id, pkg_data in api_data.items()
RECURSIVE search_api_items(_, _)
search_api_items(api_docs, i) ==
    IF i > Len(api_docs) THEN << >>
    ELSE search_modules(api_docs[i].pkg_id, api_docs[i].modules, 1)
         \o search_api_items(api_docs, i + 1)

\* 3. Add examples from notebook manifests
RECURSIVE search_examples(_, _)
search_examples(manifests, i) ==
    IF i > Len(manifests) THEN << >>
    ELSE [ j \in 1..Len(manifests[i].notebooks) |->
             search_example(manifests[i].pkg_id, manifests[i].notebooks[j]) ]
         \o search_examples(manifests, i + 1)

\* build_search_index(api_data, manifests): results
build_search_index(api_docs, manifests) ==
    page_results(manifests, 1) \o search_api_items(api_docs, 1)
        \o search_examples(manifests, 1)

\* build_crossref_index: module_target,
\* "path": f"{api_path}#{module_name.replace('.', '-')}"
crossref_module(pkg_id, module_name) ==
    [ name |-> module_name, type |-> "module", packageId |-> pkg_id,
      moduleName |-> module_name,
      path |-> site_path(pkg_id, "api", replace(module_name, ".", "-")) ]

\* build_crossref_index: class_target
crossref_class(pkg_id, module_name, cls_name) ==
    [ name |-> cls_name, type |-> "class", packageId |-> pkg_id,
      moduleName |-> module_name, path |-> site_path(pkg_id, "api", cls_name) ]

\* build_crossref_index: method_target
crossref_method(pkg_id, module_name, cls_name, method_name) ==
    [ name |-> method_name, type |-> "method", packageId |-> pkg_id,
      moduleName |-> module_name, parentClass |-> cls_name,
      path |-> site_path(pkg_id, "api", method_name) ]

\* build_crossref_index: func_target
crossref_function(pkg_id, module_name, func_name) ==
    [ name |-> func_name, type |-> "function", packageId |-> pkg_id,
      moduleName |-> module_name, path |-> site_path(pkg_id, "api", func_name) ]

\* index[key] = target for each key of keys; targets keeps every target in
\* the order it was made, whatever a later assignment to the same key does
index_set(out, target, keys) ==
    [ index   |-> dict_set_all(out.index, keys, 1, target),
      targets |-> Append(out.targets, target) ]

\* for method in cls.get("methods", []): index[f"{cls['name']}.{method['name']}"]
RECURSIVE crossref_methods(_, _, _, _, _, _)
crossref_methods(pkg_id, module_name, cls_name, methods, i, out) ==
    IF i > Len(methods) THEN out
    ELSE crossref_methods(pkg_id, module_name, cls_name, methods, i + 1,
             index_set(out, crossref_method(pkg_id, module_name, cls_name, methods[i]),
                       << dotted(cls_name, methods[i]) >>))

\* for cls in module.get("classes", []): the class under its name, its full
\* module path and f"{pkg_id}.{cls['name']}", then its methods
RECURSIVE crossref_classes(_, _, _, _, _)
crossref_classes(pkg_id, module_name, classes, i, out) ==
    IF i > Len(classes) THEN out
    ELSE LET cls_name == classes[i].name
             with_class ==
                 index_set(out, crossref_class(pkg_id, module_name, cls_name),
                           << cls_name, dotted(module_name, cls_name),
                              dotted(pkg_id, cls_name) >>)
         IN  crossref_classes(pkg_id, module_name, classes, i + 1,
                 crossref_methods(pkg_id, module_name, cls_name, classes[i].methods,
                                  1, with_class))

\* for func in module.get("functions", []): the function under its name and
\* its full module path
RECURSIVE crossref_functions(_, _, _, _, _)
crossref_functions(pkg_id, module_name, functions, i, out) ==
    IF i > Len(functions) THEN out
    ELSE crossref_functions(pkg_id, module_name, functions, i + 1,
             index_set(out, crossref_function(pkg_id, module_name, functions[i]),
                       << functions[i], dotted(module_name, functions[i]) >>))

\* for module_name, module in modules.items()
RECURSIVE crossref_modules(_, _, _, _)
crossref_modules(pkg_id, modules, i, out) ==
    IF i > Len(modules) THEN out
    ELSE LET module_name == modules[i].name
             with_module ==
                 index_set(out, crossref_module(pkg_id, module_name), << module_name >>)
             with_classes ==
                 crossref_classes(pkg_id, module_name, modules[i].classes, 1, with_module)
         IN  crossref_modules(pkg_id, modules, i + 1,
                 crossref_functions(pkg_id, module_name, modules[i].functions, 1,
                                    with_classes))

\* for pkg_id, pkg_data in api_data.items()
RECURSIVE crossref_packages(_, _, _)
crossref_packages(api_docs, i, out) ==
    IF i > Len(api_docs) THEN out
    ELSE crossref_packages(api_docs, i + 1,
             crossref_modules(api_docs[i].pkg_id, api_docs[i].modules, 1, out))

\* build_crossref_index(api_data): index, and the targets as they were made
build_crossref_index(api_docs) ==
    crossref_packages(api_docs, 1, [ index |-> << >>, targets |-> << >> ])

\* what build.py works on, which build-indexes.py does not touch
package_build ==
    << inputs, execution, manifest_json, contents, disk, files, pkg_manifest, head,
       pc, to_build, to_delete, idx, built, notebooks, attempted, results,
       history_of_build, main_ok, initial >>

\* main: api_data = load_api_data(), manifests = load_notebook_manifests()
LoadSources ==
    /\ site_pc = "start"
    /\ site_data' = [ api_data  |-> load_api_data(api_dir.api, 1),
                      manifests |-> load_notebook_manifests(api_dir.notebooks, 1) ]
    /\ site_pc' = "loaded"
    /\ UNCHANGED << package_build, api_dir, site_indexes >>

\* main: search_index = build_search_index(api_data, manifests)
BuildSearchIndex ==
    /\ site_pc = "loaded"
    /\ site_indexes' = [ site_indexes EXCEPT !.search_index =
                           build_search_index(site_data.api_data, site_data.manifests) ]
    /\ site_pc' = "search built"
    /\ UNCHANGED << package_build, api_dir, site_data >>

\* main: crossref_index = build_crossref_index(api_data)
BuildCrossrefIndex ==
    /\ site_pc = "search built"
    /\ LET made == build_crossref_index(site_data.api_data)
       IN  site_indexes' = [ site_indexes EXCEPT !.crossref_index = made.index,
                                                 !.targets = made.targets ]
    /\ site_pc' = "crossref built"
    /\ UNCHANGED << package_build, api_dir, site_data >>

\* main: write_json(search_index, ...), write_json(crossref_index, ...)
WriteIndexes ==
    /\ site_pc = "crossref built"
    /\ api_dir' = [ api_dir EXCEPT !.search = File(site_indexes.search_index),
                                   !.crossref = File(site_indexes.crossref_index) ]
    /\ site_pc' = "done"
    /\ UNCHANGED << package_build, site_data, site_indexes >>

\* the API documents of one package: every document of up to MaxSiteEntities
\* modules, classes, methods and functions, or no json file
ApiFiles ==
    { Absent } \cup { File([ modules |-> x.modules ]) : x \in InputsUpTo(MaxSiteEntities) }

\* the number of modules, classes, methods and functions of modules[i..]
RECURSIVE entities_from(_, _)
entities_from(modules, i) ==
    IF i > Len(modules) THEN 0
    ELSE LET RECURSIVE methods_from(_)
             methods_from(j) ==
                 IF j > Len(modules[i].classes) THEN 0
                 ELSE Len(modules[i].classes[j].methods) + methods_from(j + 1)
         IN  1 + Len(modules[i].classes) + methods_from(1)
               + Len(modules[i].functions) + entities_from(modules, i + 1)

\* the number of modules, classes, methods and functions of an API document
entities_of(api_file) ==
    IF Exists(api_file) THEN entities_from(Content(api_file).modules, 1) ELSE 0

\* the notebook manifest of one package: no file, no notebook, one notebook
ManifestFiles ==
    { Absent } \cup { File([ notebooks |-> notebook_list(b) ]) : b \in BOOLEAN }

\* build-indexes.py is started on the generated API documents and the
\* notebook manifests of the packages; build.py is not running
InitSite ==
    /\ Start({}, {}, { << 0, 1 >> })
    /\ ~ rebuild_all /\ ~ dry_run /\ execute
    /\ head = OnBranch("main")
    /\ Untracked
    /\ \E A \in [ Range(PACKAGE_ORDER) -> ApiFiles ] :
          /\ entities_of(A[<< "pathsim" >>]) + entities_of(A[<< "chem" >>])
                + entities_of(A[<< "vehicle" >>]) <= MaxSiteEntities
          /\ \E N \in [ Range(PACKAGE_ORDER) -> ManifestFiles ] :
                api_dir = [ api |-> A, notebooks |-> N, search |-> Absent,
                            crossref |-> Absent ]
    /\ site_pc = "start"
    /\ site_data = [ api_data |-> << >>, manifests |-> << >> ]
    /\ site_indexes = [ search_index |-> << >>, crossref_index |-> << >>,
                        targets |-> << >> ]

NextSite ==
    \/ LoadSources
    \/ BuildSearchIndex
    \/ BuildCrossrefIndex
    \/ WriteIndexes

SpecSite == InitSite /\ [][NextSite]_vars

(* ------------------------------------------------------------------ *)
(* Properties                                                          *)
(* ------------------------------------------------------------------ *)

\* the plan has been computed (to_build and to_delete hold it)
Planned == pc # "start" /\ tags # {}

\* M: the milestone tags (patch 0) at or above the minimum supported version
Milestones == { t \in tags : t[3] = 0 /\ version_gte(<< t[1], t[2] >>, min_version) }

\* latest is the newest tag
IsLatest(t) == t \in tags /\ \A u \in tags : ~ TupleLT(t, u)

\* the directories on disk when the plan was computed
Existing == initial.disk

NonMilestones(dirs) == { d \in dirs : d[3] # 0 }

\* what a run can change: the version directories, their files, the package
\* manifest and the checkout of the repository
Snapshot == [ disk |-> disk, files |-> files, pkg_manifest |-> pkg_manifest,
              head |-> head ]

\* a non-dry package run is over
RunOver == pc = "done" /\ ~ dry_run

\* build_version has just returned to the loop of build_package
Returned == pc = "loop" /\ Len(results) = Len(attempted) /\ Len(results) > 0

\* the loop over to_build is over
LoopOver ==
    \/ pc = "loop" /\ idx > Len(to_build)
    \/ pc = "package manifest"
    \/ pc = "done" /\ Planned

\* C1: get_versions_to_build never returns a tag in both to_build and to_delete.
C1_BuildDeleteDisjoint ==
    Planned => Range(to_build) \cap to_delete = {}

\* C1 witness: a plan that builds and deletes, with rebuild_all and the latest
\* tag, a non-milestone, on disk.
C1_Witness ==
    /\ Planned /\ rebuild_all
    /\ to_build # << >> /\ to_delete # {}
    /\ \E t \in Existing : IsLatest(t) /\ t[3] # 0

C3_ToBuildExactlyOnce ==
    Planned =>
        LET wanted == { t \in Milestones \cup { u \in tags : IsLatest(u) } :
                            rebuild_all \/ t \notin Existing }
        IN  /\ Range(to_build) = wanted
            /\ Len(to_build) = Cardinality(wanted)
            /\ \A i \in 1..(Len(to_build) - 1) : TupleLT(to_build[i + 1], to_build[i])
            /\ ( /\ tags = { <<0, 5, 0>>, <<0, 6, 0>>, <<0, 6, 3>>, <<0, 7, 0>> }
                 /\ min_version = <<0, 5>> /\ Existing = {} )
               => /\ to_build = << <<0, 7, 0>>, <<0, 6, 0>>, <<0, 5, 0>> >>
                  /\ to_delete = {}

\* C4 as claimed: when latest is not in M, to_delete is the existing
\* non-milestone directories that are neither in M nor latest, whether or not
\* latest has a directory; tags v0.5.0, v0.6.0, v0.6.3 with the directories
\* v0.5.0, v0.6.0, v0.6.2 give to_build [v0.6.3] and to_delete [v0.6.2].
C4_ToDeleteExactlyStale ==
    (Planned /\ \E t \in tags : IsLatest(t) /\ t \notin Milestones) =>
        /\ to_delete = { e \in NonMilestones(Existing) :
                           e \notin Milestones /\ ~ IsLatest(e) }
        /\ ( /\ tags = { <<0, 5, 0>>, <<0, 6, 0>>, <<0, 6, 3>> }
             /\ Existing = { <<0, 5, 0>>, <<0, 6, 0>>, <<0, 6, 2>> }
             /\ min_version = <<0, 5>> /\ ~ rebuild_all )
           => /\ to_build = << <<0, 6, 3>> >>
              /\ to_delete = { <<0, 6, 2>> }

\* C5 as claimed: no directory whose tag has patch 0 is put into to_delete, and
\* none is removed by a run of build_package.
C5_MilestoneDirectoriesKept ==
    /\ Planned => \A d \in to_delete : d[3] # 0
    /\ \A d \in Existing : d[3] = 0 => d \in disk

\* C6: every tag of to_build is attempted, in to_build order; a failed checkout
\* or a raising stage fails one tag and the loop goes on with the next.
C6_EveryTagAttempted ==
    /\ Len(attempted) <= Len(to_build)
    /\ attempted = SubSeq(to_build, 1, Len(attempted))
    /\ LoopOver => attempted = to_build /\ Len(results) = Len(to_build)
    /\ Cardinality({ i \in 1..Len(results) : ~ results[i] }) = faults
    /\ built = Cardinality({ i \in 1..Len(results) : results[i] })

\* C6 witness: the first tag failed, the second was built, the run is over.
C6_Witness ==
    /\ RunOver
    /\ Len(results) >= 2
    /\ ~ results[1] /\ results[2]
    /\ attempted = to_build

\* C7 as claimed: when API extraction, example copy or example execution
\* raises, the later stages still run and the manifest and the indexes are
\* generated.
C7_StagesBestEffort ==
    (Returned /\ raised \in { "extract", "copy", "execute" })
        => { "manifest", "search", "crossref" } \subseteq written

\* C7 amended: a stage that raises ends the build of the tag with failure, no
\* later stage runs and neither the manifest nor an index is written by that
\* build; they are all written exactly when no stage raises.
C7_RaiseEndsBuild ==
    Returned /\ ~ dry_run =>
        /\ raised # "none" => ~ results[Len(results)]
        /\ raised = "extract" => ran = { "extract" }
        /\ raised = "copy" => ran = { "extract", "copy" }
        /\ raised = "execute" => ran = { "extract", "copy", "execute" }
        /\ raised \in { "extract", "copy", "execute" }
              => written \cap { "manifest", "search", "crossref" } = {}
        /\ results[Len(results)]
              <=> (raised = "none" /\ { "manifest", "search", "crossref" } \subseteq written)

\* C7 witness: the API extraction of a tag raised and build_version returned.
C7_Witness ==
    /\ Returned /\ ~ dry_run
    /\ raised = "extract"
    /\ ~ results[Len(results)]

C10_DryRunChangesNothing ==
    dry_run => Snapshot = initial

\* C10 witness: a dry run with directories to delete and tags to build is over.
C10_Witness ==
    /\ dry_run /\ pc = "done"
    /\ to_delete # {} /\ to_delete \subseteq disk
    /\ Len(attempted) >= 1 /\ attempted = to_build

\* C13: after a non-dry package run in which every build succeeded, every
\* milestone tag at or above the minimum supported version and the latest tag
\* have a version directory, and planning again with the same tags and without
\* --all returns an empty to_build and an empty to_delete.
C13_SecondPlanEmpty ==
    (RunOver /\ \A i \in 1..Len(results) : results[i])
    => /\ Milestones \subseteq disk
       /\ \A t \in tags : IsLatest(t) => t \in disk
       /\ get_versions_to_build(get_tags(tags), FALSE, min_version, disk)
              = [ to_build |-> << >>, to_delete |-> {} ]

\* C13 witness: a run that deleted a directory and built a milestone and a
\* latest tag that is no milestone, every build a success, is over.
C13_Witness ==
    /\ RunOver /\ Len(results) = 2 /\ \A i \in 1..Len(results) : results[i]
    /\ to_delete # {}
    /\ \E t \in tags : IsLatest(t) /\ t \notin Milestones /\ t \notin Existing
    /\ \E t \in Milestones : t \notin Existing /\ t \in disk

\* the modules of api.json and the notebooks of manifest.json as they are in
\* the watched directory, none when the file does not exist
ApiModules == IF Exists(vdir.api) THEN Content(vdir.api).modules ELSE << >>
ManifestNotebooks ==
    IF Exists(vdir.manifest) THEN Content(vdir.manifest).notebooks ELSE << >>

\* the search index and the crossref index have been written
SearchWritten == Exists(vdir.search)
CrossrefWritten == Exists(vdir.crossref)
SearchItems == Content(vdir.search).items
CrossrefItems == Content(vdir.crossref)

\* the concatenation of a sequence of sequences
RECURSIVE Concat(_)
Concat(ss) == IF ss = << >> THEN << >> ELSE Head(ss) \o Concat(Tail(ss))

\* the sum of a sequence of numbers
RECURSIVE Sum(_)
Sum(ns) == IF ns = << >> THEN 0 ELSE Head(ns) + Sum(Tail(ns))

\* type and name of the entries a class, a module, a document and a manifest
\* are to give, in the order of the specification
EntriesOfClass(cls) ==
    << << "class", cls.name >> >>
    \o [ i \in 1..Len(cls.methods) |-> << "method", cls.methods[i] >> ]
EntriesOfModule(m) ==
    << << "module", m.name >> >>
    \o Concat([ i \in 1..Len(m.classes) |-> EntriesOfClass(m.classes[i]) ])
    \o [ i \in 1..Len(m.functions) |-> << "function", m.functions[i] >> ]
ExpectedEntries(modules, nbs) ==
    Concat([ i \in 1..Len(modules) |-> EntriesOfModule(modules[i]) ])
    \o [ i \in 1..Len(nbs) |-> << "example", nbs[i].title >> ]

\* modules + classes + methods + functions + examples
EntityCount(modules, nbs) ==
    Len(modules)
    + Sum([ i \in 1..Len(modules) |->
              Len(modules[i].classes) + Len(modules[i].functions)
              + Sum([ j \in 1..Len(modules[i].classes) |->
                        Len(modules[i].classes[j].methods) ]) ])
    + Len(nbs)

\* C14: the search index is, for each module in order, the module entry, then
\* each class entry immediately followed by the entries of its methods, then
\* the entries of the functions, and after all modules one entry per example
\* in manifest order; its length is modules + classes + methods + functions +
\* examples.
C14_SearchIndexOrder ==
    SearchWritten =>
        /\ [ i \in 1..Len(SearchItems) |-> << SearchItems[i].type, SearchItems[i].name >> ]
               = ExpectedEntries(ApiModules, ManifestNotebooks)
        /\ Len(SearchItems) = EntityCount(ApiModules, ManifestNotebooks)

\* C14 witness: the index of a module with the one class a with the methods a
\* and b, and of one example, is written: after the module entry come class
\* a, method a, method b, then the example.
C14_Witness ==
    /\ SearchWritten
    /\ Len(ApiModules) = 1
    /\ ApiModules[1].classes = << [ name |-> << "a" >>, methods |-> << << "a" >>, << "b" >> >> ] >>
    /\ ApiModules[1].functions = << >>
    /\ Len(ManifestNotebooks) = 1
    /\ Len(SearchItems) = 5
    /\ SearchItems[1].type = "module"
    /\ SearchItems[2].type = "class" /\ SearchItems[2].name = << "a" >>
    /\ SearchItems[3].type = "method" /\ SearchItems[3].name = << "a" >>
    /\ SearchItems[4].type = "method" /\ SearchItems[4].name = << "b" >>
    /\ SearchItems[5].type = "example"

\* the classes of the API document, each with the name of its module
ClassesOfDocument ==
    { [ module |-> ApiModules[i].name, name |-> ApiModules[i].classes[j].name ]
        : << i, j >> \in { p \in (1..Len(ApiModules)) \X (1..MaxEntities) :
                               p[2] <= Len(ApiModules[p[1]].classes) } }

\* the keys under which the modules and the methods of the document register
ModuleKeys == { ApiModules[i].name : i \in 1..Len(ApiModules) }
MethodKeys ==
    UNION { UNION { { dotted(ApiModules[i].classes[j].name,
                             ApiModules[i].classes[j].methods[k])
                        : k \in 1..Len(ApiModules[i].classes[j].methods) }
                    : j \in 1..Len(ApiModules[i].classes) }
            : i \in 1..Len(ApiModules) }

\* the keys C, M.C and P.C of a class
KeysOfClass(c) ==
    { c.name, dotted(c.module, c.name), dotted(PackageId, c.name) }

\* C15: for every class C in module M of package P the crossref mapping holds
\* the keys C, M.C and P.C, and the entries under the three keys carry the
\* same path, also when other entities register colliding keys.
C15_ClassKeysSamePath ==
    CrossrefWritten =>
        \A c \in ClassesOfDocument :
            /\ KeysOfClass(c) \subseteq DOMAIN CrossrefItems
            /\ \A k1 \in KeysOfClass(c), k2 \in KeysOfClass(c) :
                   CrossrefItems[k1].path = CrossrefItems[k2].path

\* C15, amended: the three keys are always there, and their entries carry the
\* path of the class when no module name and no method key Class.method of
\* the document equals one of the three keys.
C15_ClassKeysSamePathUnlessShadowed ==
    CrossrefWritten =>
        \A c \in ClassesOfDocument :
            /\ KeysOfClass(c) \subseteq DOMAIN CrossrefItems
            /\ (KeysOfClass(c) \cap (ModuleKeys \cup MethodKeys) = {})
               => \A k \in KeysOfClass(c) :
                      CrossrefItems[k].path
                          = path_of(PackageId, watched, "api", c.name)

\* C15 witness: the crossref index of a document is written in which two
\* modules hold a class b, one of them a function b as well, and no module or
\* method shadows the keys of these classes.
C15_Witness ==
    /\ CrossrefWritten
    /\ Len(ApiModules) = 2
    /\ \A i \in 1..2 : \E j \in 1..Len(ApiModules[i].classes) :
           ApiModules[i].classes[j].name = << "b" >>
    /\ \E i \in 1..2 : \E j \in 1..Len(ApiModules[i].functions) :
           ApiModules[i].functions[j] = << "b" >>
    /\ \A c \in ClassesOfDocument :
           KeysOfClass(c) \cap (ModuleKeys \cup MethodKeys) = {}

\* the keys the entities of a class, of a module and of a document register,
\* each with the entity that registers it, in traversal order: the module,
\* then each class followed by its methods, then the functions
Entity(type, name, module, parent) ==
    [ type |-> type, name |-> name, module |-> module, parent |-> parent ]
RegistrationsOfClass(M, cls) ==
    LET class == Entity("class", cls.name, M, << >>)
    IN  << [ key |-> cls.name, entity |-> class ],
           [ key |-> dotted(M, cls.name), entity |-> class ],
           [ key |-> dotted(PackageId, cls.name), entity |-> class ] >>
        \o [ i \in 1..Len(cls.methods) |->
               [ key |-> dotted(cls.name, cls.methods[i]),
                 entity |-> Entity("method", cls.methods[i], M, cls.name) ] ]
RegistrationsOfFunction(M, f) ==
    << [ key |-> f, entity |-> Entity("function", f, M, << >>) ],
       [ key |-> dotted(M, f), entity |-> Entity("function", f, M, << >>) ] >>
RegistrationsOfModule(m) ==
    << [ key |-> m.name, entity |-> Entity("module", m.name, m.name, << >>) ] >>
    \o Concat([ i \in 1..Len(m.classes) |-> RegistrationsOfClass(m.name, m.classes[i]) ])
    \o Concat([ i \in 1..Len(m.functions) |->
                  RegistrationsOfFunction(m.name, m.functions[i]) ])
Registrations(modules) ==
    Concat([ i \in 1..Len(modules) |-> RegistrationsOfModule(modules[i]) ])

\* the entity a crossref entry stands for
Owner(entry) ==
    Entity(entry.type, entry.name, entry.moduleName,
           IF entry.type = "method" THEN entry.parentClass ELSE << >>)

ApiEntries ==
    { i \in 1..Len(SearchItems) : SearchItems[i].type # "example" }

\* C17: two API entries of the search index of the same type with equal
\* packageId, moduleName and name have equal path.
C17_PathFromPackageModuleName ==
    SearchWritten =>
        \A i \in ApiEntries, j \in ApiEntries :
            ( /\ SearchItems[i].type = SearchItems[j].type
              /\ SearchItems[i].packageId = SearchItems[j].packageId
              /\ SearchItems[i].moduleName = SearchItems[j].moduleName
              /\ SearchItems[i].name = SearchItems[j].name )
            => SearchItems[i].path = SearchItems[j].path

\* the anchor rule: the module name with "-" for "." for a module, the name
\* for a class or a function, ParentClass.name for a method
AnchorRule(e) ==
    CASE e.type = "module" -> [ i \in DOMAIN e.moduleName |->
                                  IF e.moduleName[i] = "." THEN "-" ELSE e.moduleName[i] ]
      [] e.type = "method" -> e.parentClass \o << "." >> \o e.name
      [] OTHER             -> e.name

\* C17, amended: the path of an API entry is package/tag/api# followed by the
\* anchor that the anchor rule gives for its type, moduleName, name and, for
\* a method, parentClass; so entries equal in these fields have equal paths.
C17_PathFromAnchorRule ==
    SearchWritten =>
        \A i \in ApiEntries :
            SearchItems[i].path
                = [ package |-> SearchItems[i].packageId, tag |-> watched,
                    base |-> "api", rest |-> AnchorRule(SearchItems[i]) ]

\* C17 witness: the search index of two modules p and p.a is written, one of
\* them with a class a with a method a and a function b.
C17_Witness ==
    /\ SearchWritten
    /\ Len(ApiModules) = 2
    /\ \E i \in ApiEntries : SearchItems[i].type = "module"
                               /\ SearchItems[i].name = << "p", ".", "a" >>
                               /\ SearchItems[i].path.rest = << "p", "-", "a" >>
    /\ \E i \in ApiEntries : SearchItems[i].type = "method"
                               /\ SearchItems[i].path.rest = << "a", ".", "a" >>
    /\ \E i \in ApiEntries : SearchItems[i].type = "function"

\* the search index and the crossref index of the watched directory are the
\* ones derived from the api.json and the manifest.json now in it
IndexesDerived ==
    LET derived == generate_version_indexes(PackageId, watched, vdir.api, vdir.manifest)
    IN  /\ Exists(vdir.search) /\ Content(vdir.search).items = derived.search_items
        /\ Exists(vdir.crossref) /\ Content(vdir.crossref) = derived.crossref_items

\* build_version of the watched tag has returned True and the run has not
\* built anything since
Succeeded ==
    /\ ~ dry_run
    /\ pc \in { "loop", "package manifest", "done" }
    /\ Len(results) >= 1 /\ Len(results) = Len(attempted)
    /\ results[Len(results)]
    /\ attempted[Len(attempted)] = watched

\* C11: whenever a reader can look at a version directory that holds any of
\* api.json, manifest.json and the two indexes, also while the tag is being
\* rebuilt, both indexes are the ones derived from the api.json and
\* manifest.json in the directory at that moment.
C11_IndexesAlwaysDerived ==
    ( /\ watched \in disk
      /\ \/ Exists(vdir.api) \/ Exists(vdir.manifest)
         \/ Exists(vdir.search) \/ Exists(vdir.crossref) )
    => IndexesDerived

\* C11, amended: once build_version of a tag has returned True, and for the
\* rest of the package run, both indexes of its directory are the ones
\* derived from the api.json and manifest.json in the directory.
C11_IndexesDerivedAfterSuccess ==
    Succeeded => IndexesDerived

\* C11 witness: a rebuild of a tag whose directory was there before the run
\* has returned True, with a module in api.json and a notebook in the manifest.
C11_Witness ==
    /\ Succeeded
    /\ watched \in initial.disk
    /\ rebuild_all
    /\ Exists(vdir.api)
    /\ notebooks
    /\ Len(Content(vdir.search).items) = 3

\* C12: after build_version of a tag has returned True, the two indexes are
\* the ones that this build's extraction result and this build's manifest
\* give, whatever the directory held before.
C12_IndexesOfThisBuild ==
    Succeeded =>
        LET of_this_build ==
                generate_version_indexes(PackageId, watched, File(api_data),
                    File(generate_version_manifest(PackageId, watched, notebook_list(notebooks))))
        IN  /\ Exists(vdir.search)
            /\ Content(vdir.search).items = of_this_build.search_items
            /\ Exists(vdir.crossref)
            /\ Content(vdir.crossref) = of_this_build.crossref_items

\* the modification times of the two files of the watched directory
SearchMtime == Content(vdir.search).mtime
EmbeddingsMtime == Content(vdir.embeddings).mtime

\* C18: should_regenerate_embeddings is true exactly when search-index.json
\* exists and embeddings-index.json does not exist or is strictly older; it is
\* false without a search index, and false when both exist and the
\* embeddings index is at least as new; a pass without --force skips the
\* directory only when it is false.
C18_NeedsRegeneration ==
    /\ should_regenerate_embeddings(vdir)
           <=> /\ Exists(vdir.search)
               /\ \/ ~ Exists(vdir.embeddings)
                  \/ SearchMtime > EmbeddingsMtime
    /\ ~ Exists(vdir.search) => ~ should_regenerate_embeddings(vdir)
    /\ (Exists(vdir.search) /\ Exists(vdir.embeddings) /\ EmbeddingsMtime >= SearchMtime)
       => ~ should_regenerate_embeddings(vdir)
    /\ (last_pass.result = "skipped" /\ ~ last_pass.force)
       => ~ should_regenerate_embeddings(vdir)

\* C18 witness: both files exist with the same modification time and a pass
\* without --force has skipped the directory.
C18_Witness ==
    /\ pc = "idle"
    /\ Exists(vdir.search) /\ Exists(vdir.embeddings)
    /\ SearchMtime = EmbeddingsMtime
    /\ last_pass.result = "skipped" /\ ~ last_pass.force /\ ~ last_pass.dry_run

\* C19: after a pass with --force over a version directory that has a search
\* index, the embeddings index of the directory is the one this pass
\* generated from the search index, whatever the modification times were.
C19_ForceRegenerates ==
    (last_pass.result # "none" /\ last_pass.force /\ Exists(vdir.search))
    => /\ last_pass.result = "generated"
       /\ Exists(vdir.embeddings)
       /\ Content(vdir.embeddings).count = Len(Content(vdir.search).items)
       /\ EmbeddingsMtime = last_pass.at

\* C19, amended: the same for a pass with --force and without --dry-run in
\* which generate_version_embeddings did not raise.
C19_ForceRegeneratesUnlessDryOrError ==
    ( /\ last_pass.result # "none" /\ last_pass.force /\ Exists(vdir.search)
      /\ ~ last_pass.dry_run /\ last_pass.result # "error" )
    => /\ last_pass.result = "generated"
       /\ Exists(vdir.embeddings)
       /\ Content(vdir.embeddings).count = Len(Content(vdir.search).items)
       /\ EmbeddingsMtime = last_pass.at

\* C19 witness: a pass with --force has generated the embeddings index of a
\* directory for which should_regenerate_embeddings was false, at a later
\* time than the search index was written.
C19_Witness ==
    /\ last_pass.result = "generated" /\ last_pass.force /\ ~ last_pass.stale
    /\ Exists(vdir.embeddings) /\ Exists(vdir.search)
    /\ EmbeddingsMtime > SearchMtime
    /\ EmbeddingsMtime = last_pass.at

\* C20: whenever the embeddings index exists and should_regenerate_embeddings
\* is false, the count of the embeddings index is the number of entries of
\* the search index in the directory.
C20_CountMatchesSearchIndex ==
    (watched \in disk /\ Exists(vdir.embeddings) /\ ~ should_regenerate_embeddings(vdir))
    => /\ Exists(vdir.search)
       /\ Content(vdir.embeddings).count = Len(Content(vdir.search).items)

\* the tags of the versions of the package manifest, in the order listed
ManifestTags ==
    [ i \in 1..Len(pkg_manifest.versions) |-> pkg_manifest.versions[i].tag ]

\* C21: the package manifest written at the end of a non-dry package run lists
\* exactly the version directories then on disk, each once, sorted by (major,
\* minor, patch) descending, and latestTag is the first and highest of them;
\* without a version directory generate_package_manifest writes nothing.
C21_ManifestListsDirectories ==
    /\ (RunOver /\ Planned) =>
           /\ Range(ManifestTags) = disk
           /\ Len(ManifestTags) = Cardinality(disk)
           /\ \A i \in 1..(Len(ManifestTags) - 1) :
                  TupleLT(ManifestTags[i + 1], ManifestTags[i])
           /\ Len(ManifestTags) >= 1
           /\ pkg_manifest.latestTag = ManifestTags[1]
           /\ \A t \in disk : ~ TupleLT(pkg_manifest.latestTag, t)
    /\ disk = {} => pkg_manifest = NoManifest
    /\ generate_package_manifest({}, manifest_json, FALSE, pkg_manifest) = pkg_manifest

\* C21 witness: a non-dry run that deleted a directory and built two tags, one
\* of them with a failure, has written a manifest of two versions.
C21_Witness ==
    /\ RunOver /\ Planned
    /\ to_delete # {} /\ to_delete \cap disk = {} /\ to_delete \subseteq initial.disk
    /\ Len(results) = 2 /\ \E i \in 1..Len(results) : ~ results[i]
    /\ Len(ManifestTags) = 2
    /\ pkg_manifest.latestTag = ManifestTags[1]

\* C22: the aggregation never aborts because of one version: a version
\* directory whose manifest.json is missing, unreadable or malformed is still
\* listed, with hasExamples false, and every other version is listed with
\* hasExamples true exactly when its manifest lists at least one example.
C22_HasExamplesTolerant ==
    (RunOver /\ Planned) =>
        /\ Range(ManifestTags) = disk
        /\ Len(pkg_manifest.versions) = Cardinality(disk)
        /\ \A i \in 1..Len(pkg_manifest.versions) :
               LET v == pkg_manifest.versions[i]
               IN  IF manifest_json[v.tag] \in { "missing", "malformed" }
                      THEN ~ v.hasExamples
                      ELSE v.hasExamples <=> manifest_json[v.tag] = "notebooks"

\* C22 witness: the manifest of a package with two version directories is
\* written, the higher one with a malformed manifest.json, the other with a
\* manifest that lists notebooks.
C22_Witness ==
    /\ RunOver /\ Planned
    /\ Len(pkg_manifest.versions) = 2
    /\ manifest_json[pkg_manifest.versions[1].tag] = "malformed"
    /\ ~ pkg_manifest.versions[1].hasExamples
    /\ manifest_json[pkg_manifest.versions[2].tag] = "notebooks"
    /\ pkg_manifest.versions[2].hasExamples

\* the stems of the executable notebooks of the list given to
\* execute_notebooks
ExecutableStems == stems_of(executable_of(nb_metadata))

\* execute_notebooks has returned its mapping to build_version
ExecutionReturned == pc = "manifest" /\ "execute" \in ran

\* C23: for every order in which the workers complete, the mapping
\* execute_notebooks returns has exactly one entry per executable example,
\* keyed by its name; every example was executed to its end, an example that
\* timed out, failed or raised has a failed result and the others the result
\* of their own execution; the build of the tag goes on with the manifest, and
\* the stage fails the build only before any example was executed.
C23_OneResultPerExample ==
    /\ DOMAIN exec_results \subseteq ExecutableStems
    /\ \A n \in DOMAIN exec_results :
           /\ n \in DOMAIN outcomes
           /\ exec_results[n].success <=> outcomes[n] = "ok"
    /\ ExecutionReturned =>
           /\ DOMAIN exec_results = ExecutableStems
           /\ DOMAIN outcomes = ExecutableStems
           /\ raised = "none"
           /\ Len(results) = Len(attempted) - 1
    /\ raised = "execute" => outcomes = << >> /\ exec_results = << >>

\* C23 witness: five executable examples, more than the pool has workers,
\* ended out of the order of their submission, one with a timeout, one with a
\* failure, one with an exception, and execute_notebooks has returned a
\* mapping with five entries.
C23_Witness ==
    /\ ExecutionReturned
    /\ reordered
    /\ Cardinality(ExecutableStems) = 5
    /\ Cardinality(DOMAIN exec_results) = 5
    /\ \E a, b, c, d \in ExecutableStems :
           /\ outcomes[a] = "timeout" /\ outcomes[b] = "failed"
           /\ outcomes[c] = "raised" /\ outcomes[d] = "ok"
           /\ ~ exec_results[a].success /\ ~ exec_results[b].success
           /\ ~ exec_results[c].success /\ exec_results[d].success

\* the tags whose every build in this run returned False
FailedTags ==
    { t \in Range(attempted) :
        \A i \in 1..Len(results) : attempted[i] = t => ~ results[i] }

\* the tags in to_build of the next incremental plan (rebuild_all False) over
\* the same tags and the directories now on disk
NextIncrementalPlan ==
    Range(get_versions_to_build(get_tags(tags), FALSE, min_version, disk).to_build)

\* C24: when the build of a tag failed in a non-dry package run (its checkout
\* failed or a stage raised), the next incremental plan over the same tags
\* holds that tag in to_build again.
C24_FailedTagPlannedAgain ==
    RunOver => FailedTags \subseteq NextIncrementalPlan

\* build_version has just returned False because the checkout of its tag
\* failed
CheckoutFailed ==
    /\ Returned /\ ~ dry_run
    /\ ~ results[Len(results)]
    /\ raised = "none"

\* the version directories there were when the last build_version was called:
\* those of the start of the run that were not deleted, and those of the
\* earlier builds of the run
DirectoriesBeforeLastBuild ==
    (initial.disk \ to_delete)
    \cup { attempted[j] : j \in 1..(Len(attempted) - 1) }

\* C25: when build_version returns failure because the checkout of the tag
\* failed, no version directory for that tag has been created and no file of
\* the output directory has been written.
C25_FailedCheckoutLeavesTree ==
    CheckoutFailed =>
        /\ disk = DirectoriesBeforeLastBuild
        /\ written = {}

\* a version directory with these files is populated: it holds the version
\* manifest and both indexes (api.json only when the tag has modules)
Populated(fs) == { "manifest", "search", "crossref" } \subseteq fs

\* the build of the latest tag has succeeded in this run
LatestBuilt ==
    \E i \in 1..Len(results) : IsLatest(attempted[i]) /\ results[i]

\* C26: in a non-dry package run a non-milestone version directory that was
\* there before the run is removed only if the build of the new latest tag
\* succeeds in the run, and when such a directory was populated before the
\* run, a populated directory of it or of the latest tag exists after the run.
C26_LatestNeverLost ==
    (RunOver /\ Planned) =>
        \A d \in NonMilestones(initial.disk) :
            /\ d \notin disk => LatestBuilt
            /\ Populated(initial.files[d]) =>
                   \/ d \in disk /\ Populated(files[d])
                   \/ \E t \in disk : IsLatest(t) /\ Populated(files[t])

\* C27: every version listed in the package manifest written by a non-dry
\* run, latestTag among them, names a version directory that holds a
\* manifest.json and a search-index.json, and a tag without a directory
\* before the run whose every build failed is not listed.
C27_ListedVersionsPopulated ==
    (RunOver /\ Planned) =>
        /\ \A i \in 1..Len(ManifestTags) :
               { "manifest", "search" } \subseteq files[ManifestTags[i]]
        /\ pkg_manifest.latestTag \in disk
        /\ { "manifest", "search" } \subseteq files[pkg_manifest.latestTag]
        /\ (FailedTags \ initial.disk) \cap Range(ManifestTags) = {}

\* C28: starting from an empty output directory, after every run of a sequence
\* of non-dry package runs (incremental or --all, builds succeeding or failing)
\* over a tag set that only grows and a fixed minimum supported version, at
\* most one version directory that is not a milestone exists.
C28_AtMostOneNonMilestoneAfterEveryRun ==
    RunOver => Cardinality(disk \ Milestones) <= 1

\* C28 witness: a later run, after a new tag: it removed the non-milestone
\* directory an earlier run had built and left the one of the new latest tag
\* beside a milestone, and one of its builds failed.
C28_Witness ==
    /\ RunOver
    /\ Cardinality(Existing \ Milestones) = 1
    /\ Existing \ Milestones \subseteq to_delete
    /\ Cardinality(disk \ Milestones) = 1
    /\ \E t \in disk \ Milestones : IsLatest(t) /\ t \notin Existing
    /\ disk \cap Milestones # {}
    /\ FALSE \in Range(results)

\* C29: the dry run of the embeddings pass predicts the real run: for the
\* version directory as it is on disk and either value of force, the dry run
\* reports "would generate" exactly when the same invocation without --dry-run
\* writes an embeddings index (generation raising no error), so the generated
\* and the skipped totals of the two runs are equal.
C29_DryRunPredictsRealRun ==
    (pc = "idle" /\ watched \in disk) =>
        \A force \in BOOLEAN, now \in later(clock) :
            pass_result(vdir, force, TRUE, FALSE, now) = "would generate"
                <=> pass_result(vdir, force, FALSE, FALSE, now) = "generated"

\* the results of the site-wide search index for modules, classes, methods
\* and functions
SiteApiResults ==
    SelectSeq(site_indexes.search_index,
              LAMBDA e : e.type \in { "module", "class", "method", "function" })

\* the search result e and the crossref target t are of the same API entity
SameEntity(e, t) ==
    /\ e.type = t.type
    /\ e.name = t.name
    /\ e.packageId = t.packageId
    /\ e.moduleName = t.moduleName
    /\ e.type = "method" => e.parentClass = t.parentClass

\* C30: in build-indexes.py the search index and the crossref index agree on
\* the path of every API entity: for every module, class, method and function
\* of the loaded API data, the path of its search result equals the path of
\* the crossref target made for it (the target as it was registered, before a
\* later assignment to the same key).
C30_SiteIndexesAgreeOnPaths ==
    site_pc = "done" =>
        /\ Len(SiteApiResults) = Len(site_indexes.targets)
        /\ \A i \in 1..Len(SiteApiResults) :
              /\ SameEntity(SiteApiResults[i], site_indexes.targets[i])
              /\ SiteApiResults[i].path = site_indexes.targets[i].path

====
